---- MODULE Spec2Model ----
(***************************************************************************)
(* Julia-set renderer: the export cache (JuliaExport), in the two versions *)
(* the repository holds (src/export.rs, used by JuliaInterface, and the    *)
(* one inside src/lib.rs, used by JuliaContext), the compute dispatch      *)
(* sizing, the future chain of one interactive frame, the window events    *)
(* of the interface (in f32 and u32 arithmetic) and its run loop.          *)
(***************************************************************************)
EXTENDS Integers, Sequences, FiniteSets, TLC

VARIABLES
    cached_data,      \* export.rs  JuliaExport.cached_data : Cell<Option<JuliaExportCache>>
    lib_cached_data,  \* lib.rs     JuliaExport.cached_data : Cell<Option<JuliaExportCache>>
    last,             \* observation of the most recent export call (None before the first)
    earlier,          \* observation of one export call made before `last`
    adjacent,         \* TRUE iff `earlier` is the call immediately before `last`
    formatted,        \* TRUE iff Debug::fmt was called since the last export call
    state,            \* interface.rs JuliaInterface.state (the part a frame reads)
    swap_idx,         \* index of the swapchain image acquired by the frame in flight
    submitted,        \* GPU operations of the frame in flight, each with the operations it waits for
    completed,        \* names of the operations of the frame in flight the GPU has executed
    frame_pc,         \* position of JuliaInterface::update: "idle" or "waiting" (on the fence)
    frames,           \* number of frames finished
    polled,           \* number of window events event_callback has handled
    probe,            \* one call of a function of the program: [fn, arg, out]
    run               \* position of JuliaInterface::run, the build's overflow checks, and
                      \* what the current iteration of its loop has done

vars == <<cached_data, lib_cached_data, last, earlier, adjacent, formatted,
          state, swap_idx, submitted, completed, frame_pc, frames, polled, probe, run>>

exportVars == <<cached_data, lib_cached_data, last, earlier, adjacent, formatted>>
frameVars == <<state, swap_idx, submitted, completed, frame_pc, frames>>
otherVars == <<polled, probe, run>>

(***************************************************************************)
(* Bounds                                                                  *)
(***************************************************************************)
MaxDim == 12          \* the larger of the two widths (and base of the heights) exported
MaxFrames == 3        \* frames the interactive loop runs
MaxN == 4             \* largest exponent reached by PageUp
ImageCount == 2       \* swapchain images

(***************************************************************************)
(* Program constants                                                       *)
(***************************************************************************)
LocalSize == 8        \* workgroup edge: the divisor in the dispatch size
BytesPerPixel == 4    \* R8G8B8A8: the factor in the output buffer length

None == <<>>
Some(x) == <<x>>
Unwrap(o) == o[1]

(***************************************************************************)
(* f32 arithmetic. A value is [s, m, e], standing for s * m * 2^e with s   *)
(* the sign (1 or -1) and m a 24-bit magnitude: 2^23 <= m < 2^24 for a     *)
(* normal value, m < 2^23 and e = MinExp for a subnormal one and for zero  *)
(* (whose sign is not kept: 0.0 == -0.0). Infinities have e = InfExp, NaN  *)
(* has e = NaNExp. Results are rounded to nearest, ties to even.           *)
(***************************************************************************)
MantBits == 2 * 12
MinExp == 0 - 149
MaxExp == 104
InfExp == MaxExp + 1
NaNExp == MaxExp + 2

F32(s, m, e) == [s |-> s, m |-> m, e |-> e]
FZero == F32(1, 0, MinExp)
FInf(s) == F32(s, 0, InfExp)
FNaN == F32(1, 0, NaNExp)

IsNaN(a) == a.e = NaNExp
IsInf(a) == a.e = InfExp
IsZero(a) == a.m = 0 /\ a.e = MinExp

\* the number of binary digits of m (0 <= m < 2^31)
BitLen(m) == IF m = 0 THEN 0 ELSE CHOOSE k \in 1..31 : m >= 2 ^ (k - 1) /\ (k = 31 \/ m < 2 ^ k)

\* m without its k lowest binary digits, and those digits
ShiftRight(m, k) ==
    IF k <= 0 THEN m * (2 ^ (0 - k)) ELSE IF k >= 31 THEN 0 ELSE m \div (2 ^ k)
Dropped(m, k) == IF k <= 0 THEN 0 ELSE IF k >= 31 THEN m ELSE m % (2 ^ k)

\* the k dropped digits r (and a fraction below them when sticky) compared with
\* half a unit of the result: -1 below, 0 a tie, 1 above
HalfCmp(r, k, sticky) ==
    IF k <= 0 \/ k >= 32 THEN 0 - 1
    ELSE IF r > 2 ^ (k - 1) THEN 1
    ELSE IF r < 2 ^ (k - 1) THEN 0 - 1
    ELSE IF sticky THEN 1 ELSE 0

\* round to nearest, ties to even
RoundUp(q, half) == IF half = 1 \/ (half = 0 /\ q % 2 = 1) THEN q + 1 ELSE q

\* the f32 of sign s, magnitude q <= 2^24 and exponent e
Pack(s, q, e) ==
    IF q = 0 THEN FZero
    ELSE IF q = 2 ^ MantBits
         THEN IF e + 1 > MaxExp THEN FInf(s) ELSE F32(s, 2 ^ (MantBits - 1), e + 1)
         ELSE IF e > MaxExp THEN FInf(s) ELSE F32(s, q, e)

\* the exponent of the f32 nearest to a value of bits digits at exponent e
ResultExp(e, bits) ==
    IF e + bits - MantBits > MinExp THEN e + bits - MantBits ELSE MinExp

RoundAt(s, m, k, sticky, e1) ==
    Pack(s, RoundUp(ShiftRight(m, k), HalfCmp(Dropped(m, k), k, sticky)), e1)

RoundExp(s, m, e, sticky, e1) == RoundAt(s, m, e1 - e, sticky, e1)

\* the f32 nearest to s * (m + f) * 2^e, where 0 <= m < 2^31 and the fraction f
\* is 0 when sticky is FALSE and some 0 < f < 1 when it is TRUE (m then has at
\* least 26 digits)
RoundPack(s, m, e, sticky) == RoundExp(s, m, e, sticky, ResultExp(e, BitLen(m)))

FNeg(a) == IF IsNaN(a) \/ IsZero(a) THEN a ELSE [a EXCEPT !.s = 0 - @]
FAbs(a) == [a EXCEPT !.s = 1]

\* a < b of f32 (false when either is NaN)
FLt(a, b) ==
    IF IsNaN(a) \/ IsNaN(b) THEN FALSE
    ELSE IF a.s # b.s THEN a.s < b.s /\ ~(IsZero(a) /\ IsZero(b))
    ELSE IF a.s = 1 THEN a.e < b.e \/ (a.e = b.e /\ a.m < b.m)
    ELSE a.e > b.e \/ (a.e = b.e /\ a.m > b.m)

\* the product hi * 2^24 + lo at exponent e, without its d lowest digits
MulDrop(s, e, hi, lo, d) ==
    RoundPack(s,
              IF d = 0 THEN hi * (2 ^ MantBits) + lo
              ELSE hi * (2 ^ (MantBits - d)) + (lo \div (2 ^ d)),
              e + d,
              d > 0 /\ lo % (2 ^ d) # 0)

MulWide(s, e, hi, lo) == MulDrop(s, e, hi, lo, IF BitLen(hi) > 6 THEN BitLen(hi) - 6 ELSE 0)

\* the partial products of the 12-digit halves, summed
MulParts(s, e, p0, p1, p2) ==
    MulWide(s, e,
            p2 + (p1 \div (2 ^ 12)) + ((p0 + (p1 % (2 ^ 12)) * (2 ^ 12)) \div (2 ^ MantBits)),
            (p0 + (p1 % (2 ^ 12)) * (2 ^ 12)) % (2 ^ MantBits))

MulMag(s, x, y, e) ==
    MulParts(s, e,
             (x % (2 ^ 12)) * (y % (2 ^ 12)),
             (x \div (2 ^ 12)) * (y % (2 ^ 12)) + (x % (2 ^ 12)) * (y \div (2 ^ 12)),
             (x \div (2 ^ 12)) * (y \div (2 ^ 12)))

\* a * b
FMul(a, b) ==
    IF IsNaN(a) \/ IsNaN(b) \/ (IsInf(a) /\ IsZero(b)) \/ (IsZero(a) /\ IsInf(b)) THEN FNaN
    ELSE IF IsInf(a) \/ IsInf(b) THEN FInf(a.s * b.s)
    ELSE MulMag(a.s * b.s, a.m, b.m, a.e + b.e)

\* x + y for |x| >= |y|, y shifted to x's exponent with three guard digits: Y
AddShifted(x, y, Y, sticky) ==
    RoundPack(x.s,
              IF x.s = y.s THEN x.m * 8 + Y
              ELSE IF sticky THEN x.m * 8 - Y - 1 ELSE x.m * 8 - Y,
              x.e - 3,
              sticky)

AddAligned(x, y, d) ==
    AddShifted(x, y,
               IF d >= 27 THEN 0 ELSE (y.m * 8) \div (2 ^ d),
               IF d >= 27 THEN TRUE ELSE (y.m * 8) % (2 ^ d) # 0)

\* a + b
FAdd(a, b) ==
    IF IsNaN(a) \/ IsNaN(b) \/ (IsInf(a) /\ IsInf(b) /\ a.s # b.s) THEN FNaN
    ELSE IF IsInf(a) THEN a
    ELSE IF IsInf(b) THEN b
    ELSE IF IsZero(a) THEN b
    ELSE IF IsZero(b) THEN a
    ELSE IF a.e < b.e \/ (a.e = b.e /\ a.m < b.m) THEN AddAligned(b, a, b.e - a.e)
    ELSE AddAligned(a, b, a.e - b.e)

FSub(a, b) == FAdd(a, FNeg(b))

RECURSIVE LongDiv(_, _, _, _)
\* n more binary digits of rem / d after the digits q: <<quotient, remainder>>
LongDiv(rem, d, q, n) ==
    IF n = 0 THEN <<q, rem>>
    ELSE IF 2 * rem >= d THEN LongDiv(2 * rem - d, d, 2 * q + 1, n - 1)
         ELSE LongDiv(2 * rem, d, 2 * q, n - 1)

DivRound(s, qr, e) == RoundPack(s, qr[1], e, qr[2] # 0)

\* n / d of two 24-digit significands, to 27 digits after the first
DivNorm(s, n, d, e) == DivRound(s, LongDiv(n % d, d, n \div d, 27), e)

DivMag(a, b, la, lb) ==
    DivNorm(a.s * b.s, a.m * (2 ^ (MantBits - la)), b.m * (2 ^ (MantBits - lb)),
            (a.e - b.e) + (la - lb) - 27)

\* a / b
FDiv(a, b) ==
    IF IsNaN(a) \/ IsNaN(b) \/ (IsInf(a) /\ IsInf(b)) \/ (IsZero(a) /\ IsZero(b)) THEN FNaN
    ELSE IF IsInf(a) \/ IsZero(b) THEN FInf(a.s * b.s)
    ELSE IF IsInf(b) \/ IsZero(a) THEN FZero
    ELSE DivMag(a, b, BitLen(a.m), BitLen(b.m))

\* an integer -2^24 < n < 2^24 as f32 (exact)
FromInt(n) == RoundPack(IF n < 0 THEN -1 ELSE 1, IF n < 0 THEN 0 - n ELSE n, 0, FALSE)

(***************************************************************************)
(* u32 counters. TLC's integers are 32 bits wide and signed, so a u32 v is *)
(* held as v when v < 2^31 and as v - 2^32 otherwise; the small values are *)
(* themselves.                                                             *)
(***************************************************************************)
MaxI32 == 2 ^ 30 + (2 ^ 30 - 1)
U32Max == 0 - 1         \* u32::MAX, 2^32 - 1

\* a < b as u32
LtU32(a, b) == IF (a >= 0) = (b >= 0) THEN a < b ELSE a >= 0

\* a + k of u32 (0 <= k < 2^31): the wrapped sum, and whether it left u32
AddU32(a, k) ==
    [value |-> IF a >= 0 /\ a > MaxI32 - k
               THEN ((a - MaxI32) - 1) + ((k - MaxI32) - 1)
               ELSE a + k,
     overflow |-> a < 0 /\ a + k >= 0]

\* a - k of u32 (0 <= k < 2^31): the wrapped difference, and whether it left u32
SubU32(a, k) ==
    [value |-> IF a < 0 /\ a < (k - MaxI32) - 1
               THEN ((a + MaxI32) + 1) + ((MaxI32 - k) + 1)
               ELSE a - k,
     overflow |-> a >= 0 /\ a < k]

\* `n as f32` of a u32
FromU32(n) ==
    IF n >= 0 THEN RoundPack(1, n, 0, FALSE)
    ELSE LET w == (n + MaxI32) + 1      \* n = 2^31 + w
         IN  RoundPack(1, 2 ^ 29 + (w \div 4), 2, w % 4 # 0)


(***************************************************************************)
(* Values: ImgDimensions and JuliaData (lib.rs)                            *)
(***************************************************************************)
Widths == {LocalSize, MaxDim}
Heights == {LocalSize, MaxDim - 3}
DimsSet == [width : Widths, height : Heights]

\* f32 literals of the sources
Lit1 == FromInt(1)                     \* 1.0
Lit0_2 == F32(1, 13421773, 0 - 26)     \* 0.2
Lit0_21 == F32(1, 14092861, 0 - 26)    \* 0.21
Lit0_25 == F32(1, 8388608, 0 - 25)     \* 0.25
Lit0_26 == F32(1, 8724152, 0 - 25)     \* 0.26
Lit3_6 == F32(1, 15099494, 0 - 22)     \* 3.6
Lit3_7 == F32(1, 15518925, 0 - 22)     \* 3.7
NaN == FNaN    \* the non-finite f32 that is unequal to itself

BaseData == [color |-> <<FZero, Lit1, Lit1>>, color_midpoint |-> Lit0_25, n |-> 2,
             c |-> <<Lit0_2, FZero>>, iters |-> 100, center |-> <<FZero, FZero>>,
             extents |-> <<Lit3_6, Lit3_6>>]

Fields == {"color", "color_midpoint", "n", "c", "iters", "center", "extents"}

\* BaseData with one field changed
Changed(f) ==
    CASE f = "color" -> [BaseData EXCEPT !.color = <<FZero, FZero, Lit1>>]
      [] f = "color_midpoint" -> [BaseData EXCEPT !.color_midpoint = Lit0_26]
      [] f = "n" -> [BaseData EXCEPT !.n = 3]
      [] f = "c" -> [BaseData EXCEPT !.c = <<Lit0_2, Lit0_21>>]
      [] f = "iters" -> [BaseData EXCEPT !.iters = 101]
      [] f = "center" -> [BaseData EXCEPT !.center = <<Lit1, FZero>>]
      [] f = "extents" -> [BaseData EXCEPT !.extents = <<Lit3_6, Lit3_7>>]

\* BaseData, every ParameterSet that differs from it in exactly one field,
\* and one whose midpoint is NaN.
DataSet ==
    {BaseData} \cup {Changed(f) : f \in Fields}
    \cup {[BaseData EXCEPT !.color_midpoint = NaN]}

\* f32 == : a NaN is equal to nothing
F32Eq(a, b) == ~IsNaN(a) /\ ~IsNaN(b) /\ a = b

Vec2Eq(a, b) == F32Eq(a[1], b[1]) /\ F32Eq(a[2], b[2])

\* mutant: a comparison that leaves out the iteration count
JuliaDataEq_NoIters(a, b) ==
    /\ \A i \in 1..3 : F32Eq(a.color[i], b.color[i])
    /\ F32Eq(a.color_midpoint, b.color_midpoint)
    /\ a.n = b.n
    /\ Vec2Eq(a.c, b.c)
    /\ Vec2Eq(a.center, b.center)
    /\ Vec2Eq(a.extents, b.extents)

\* #[derive(PartialEq)] on JuliaData: field by field
JuliaDataEq(a, b) ==
    /\ \A i \in 1..3 : F32Eq(a.color[i], b.color[i])
    /\ F32Eq(a.color_midpoint, b.color_midpoint)
    /\ a.n = b.n
    /\ Vec2Eq(a.c, b.c)
    /\ a.iters = b.iters
    /\ Vec2Eq(a.center, b.center)
    /\ Vec2Eq(a.extents, b.extents)

\* mutant: a comparison that leaves out the height
ImgDimensionsEq_WidthOnly(a, b) == a.width = b.width

\* #[derive(PartialEq, Eq)] on ImgDimensions
ImgDimensionsEq(a, b) == a.width = b.width /\ a.height = b.height

\* JuliaData::into_shader_data: every field copied into the shader's layout
into_shader_data(d) ==
    [color |-> d.color, midpt |-> d.color_midpoint, n |-> d.n, c |-> d.c,
     iters |-> d.iters, center |-> d.center, extents |-> d.extents]

Key(dims, data) == <<dims, data>>

(***************************************************************************)
(* GPU resources and the compute program                                   *)
(***************************************************************************)
Blank == <<>>       \* the content of an image or buffer nothing has written

\* the workgroup counts every dispatch in the repository passes
DispatchSize(width, height) == <<width \div LocalSize, height \div LocalSize, 1>>

(***************************************************************************)
(* u32 arithmetic. A u32 is four base-256 digits, least significant first, *)
(* so that products beyond 2^31 can be written.                            *)
(***************************************************************************)
Base == 2 ^ 8
U32Digits == 2 * 2

\* the k least significant digits of the natural number n
ToLimbs(n, k) == [i \in 1..k |-> (n \div (Base ^ (i - 1))) % Base]

RECURSIVE FromLimbs(_)
FromLimbs(a) == IF a = <<>> THEN 0 ELSE a[1] + Base * FromLimbs(Tail(a))

\* a with zero digits appended up to k digits
Pad(a, k) == [i \in 1..k |-> IF i <= Len(a) THEN a[i] ELSE 0]

RECURSIVE SumProducts(_, _, _, _)
\* the sum of a[j] * b[k + 1 - j] over j >= i: column k of the long multiplication
SumProducts(a, b, k, i) ==
    IF i > Len(a) THEN 0
    ELSE (IF (k + 1 - i) \in 1..Len(b) THEN a[i] * b[k + 1 - i] ELSE 0)
         + SumProducts(a, b, k, i + 1)

RECURSIVE Propagate(_, _, _, _)
Propagate(a, b, k, carry) ==
    IF k > Len(a) + Len(b) THEN <<>>
    ELSE LET t == SumProducts(a, b, k, 1) + carry
         IN  <<t % Base>> \o Propagate(a, b, k + 1, t \div Base)

\* the exact product, Len(a) + Len(b) digits
MulLimbs(a, b) == Propagate(a, b, 1, 0)

\* u32 * u32: the low four digits of the product, and whether it left u32
MulU32(a, b) ==
    LET full == MulLimbs(a, b)
    IN  [value |-> SubSeq(full, 1, U32Digits),
         overflow |-> \E i \in (U32Digits + 1)..Len(full) : full[i] # 0]

\* `dims.width * dims.height * 4` on u32 digits. With overflow checks (a debug
\* build) a product that leaves u32 panics; without (a release build) it wraps.
output_len(width, height, overflow_checks) ==
    LET wh == MulU32(width, height)
        whb == MulU32(wh.value, ToLimbs(BytesPerPixel, U32Digits))
    IN  IF overflow_checks /\ (wh.overflow \/ whb.overflow)
        THEN [panic |-> TRUE, len |-> None]
        ELSE [panic |-> FALSE, len |-> whb.value]

\* dims.width * dims.height * 4, the length of the output buffer, for dimensions
\* whose product stays in u32: there output_len gives this number in both builds
OutputLen(dims) == dims.width * dims.height * BytesPerPixel

\* The compute program: what it leaves in the image is a function of the
\* parameter record it reads, the image's size and the workgroups run.
Shade(params, width, height, groups) ==
    [params |-> params, width |-> width, height |-> height, groups |-> groups]

\* Execution of a dispatch-then-copy command buffer on the queue: the image the
\* descriptor set binds is written, then copied into the destination buffer.
Execute(cmd_buf) ==
    LET img == cmd_buf.dispatch.desc_set.image
        pixels == Shade(cmd_buf.dispatch.desc_set.buffer.contents,
                        img.width, img.height, cmd_buf.dispatch.groups)
        written == [img EXCEPT !.pixels = pixels]
        src == IF cmd_buf.copy.src.built_for = img.built_for
               THEN written ELSE cmd_buf.copy.src
    IN  [image |-> written,
         output_buffer |-> [cmd_buf.copy.dst EXCEPT !.bytes = src.pixels]]

\* ImageBuffer::from_raw(w, h, buf).unwrap() then save: None when the buffer is
\* shorter than w * h * 4
from_raw(width, height, buf) ==
    IF buf.len < width * height * BytesPerPixel
    THEN None
    ELSE Some([width |-> width, height |-> height, pixels |-> buf.bytes])

(***************************************************************************)
(* src/export.rs: JuliaExport                                              *)
(***************************************************************************)
\* regen_cache: a new input buffer (uploaded, fence waited), image and output
\* buffer, stored as the entry for (dims, data)
regen_cache(dims, data) ==
    LET key == Key(dims, data)
        input_buffer == [built_for |-> key, contents |-> into_shader_data(data)]
        image == [built_for |-> key, width |-> dims.width, height |-> dims.height,
                  pixels |-> Blank]
        output_buffer == [built_for |-> key, len |-> OutputLen(dims), bytes |-> Blank]
    IN  [cell |-> Some([dims |-> dims, data |-> data, input_buffer |-> input_buffer,
                        image |-> image, output_buffer |-> output_buffer]),
         allocs |-> <<"input_buffer", "image", "output_buffer">>,
         trace |-> <<"upload_record", "image_alloc", "output_alloc",
                     "upload_submit", "upload_wait">>]

\* mutant: the entry is kept whenever the dimensions are equal
CacheMatches_DimsOnly(c, dims, data) == ImgDimensionsEq(c.dims, dims)

\* mutant: the entry is kept whenever the data are equal
CacheMatches_DataOnly(c, dims, data) == JuliaDataEq(c.data, data)

\* the test of export: the entry is kept iff neither data nor dims differ
CacheMatches(c, dims, data) ==
    ~(~JuliaDataEq(c.data, data) \/ ~ImgDimensionsEq(c.dims, dims))

\* mutant: on a change of the data alone only the input buffer is rebuilt and
\* the image and output buffer of the old entry are kept
export_lookup_Patch(cell, dims, data) ==
    IF cell = None
    THEN regen_cache(dims, data) @@ [hit |-> FALSE]
    ELSE LET c == Unwrap(cell)
             fresh == regen_cache(dims, data)
         IN  IF CacheMatches(c, dims, data)
             THEN [cell |-> Some(c), allocs |-> <<>>, trace |-> <<>>, hit |-> TRUE]
             ELSE IF ImgDimensionsEq(c.dims, dims)
             THEN [cell |-> Some([Unwrap(fresh.cell) EXCEPT
                                    !.image = c.image,
                                    !.output_buffer = c.output_buffer]),
                   allocs |-> fresh.allocs, trace |-> fresh.trace, hit |-> FALSE]
             ELSE fresh @@ [hit |-> FALSE]

\* export, up to the call of export_core: take the entry; regenerate when there
\* is none or it does not match, else put it back
export_lookup(cell, dims, data) ==
    IF cell = None
    THEN regen_cache(dims, data) @@ [hit |-> FALSE]
    ELSE LET c == Unwrap(cell)
         IN  IF CacheMatches(c, dims, data)
             THEN [cell |-> Some(c), allocs |-> <<>>, trace |-> <<>>, hit |-> TRUE]
             ELSE regen_cache(dims, data) @@ [hit |-> FALSE]

\* mutant: command_buffer does not put the entry back
command_buffer_NoPutBack(cell) ==
    IF cell = None
    THEN [panic |-> TRUE, cell |-> None, cmd_buf |-> None, allocs |-> <<>>, trace |-> <<>>]
    ELSE LET cache == Unwrap(cell)
             desc_set == [image |-> cache.image, buffer |-> cache.input_buffer]
             cmd_buf == [dispatch |-> [groups |-> DispatchSize(cache.dims.width,
                                                               cache.dims.height),
                                       desc_set |-> desc_set],
                         copy |-> [src |-> cache.image, dst |-> cache.output_buffer]]
         IN  [panic |-> FALSE, cell |-> None, cmd_buf |-> cmd_buf,
              allocs |-> <<"descriptor_set", "command_buffer">>,
              trace |-> <<"desc_set_build", "cmd_buf_build">>]

\* command_buffer: take().unwrap() the entry, bind its image and input buffer,
\* record dispatch then copy, put the entry back
command_buffer(cell) ==
    IF cell = None
    THEN [panic |-> TRUE, cell |-> None, cmd_buf |-> None, allocs |-> <<>>, trace |-> <<>>]
    ELSE LET cache == Unwrap(cell)
             desc_set == [image |-> cache.image, buffer |-> cache.input_buffer]
             cmd_buf == [dispatch |-> [groups |-> DispatchSize(cache.dims.width,
                                                               cache.dims.height),
                                       desc_set |-> desc_set],
                         copy |-> [src |-> cache.image, dst |-> cache.output_buffer]]
         IN  [panic |-> FALSE, cell |-> Some(cache), cmd_buf |-> cmd_buf,
              allocs |-> <<"descriptor_set", "command_buffer">>,
              trace |-> <<"desc_set_build", "cmd_buf_build">>]

\* What the queue's execution of cmd_buf leaves in the entry of the cell: the
\* entry shares (Arc) the image and output buffer the command buffer is bound to.
Written(cell, cmd_buf) ==
    IF cell = None THEN None
    ELSE LET cache == Unwrap(cell)
             ex == Execute(cmd_buf)
         IN  Some([cache EXCEPT
                     !.image = IF @.built_for = ex.image.built_for
                               THEN ex.image ELSE @,
                     !.output_buffer = IF @.built_for = ex.output_buffer.built_for
                                       THEN ex.output_buffer ELSE @])

\* mutant: the output buffer is read before the fence of the dispatch is waited
export_core_ReadBeforeWait(cell) ==
    LET cb == command_buffer(cell)
    IN  IF cb.panic
        THEN [panic |-> TRUE, cell |-> None, file |-> None, used |-> None,
              groups |-> None, allocs |-> cb.allocs, trace |-> cb.trace]
        ELSE LET cache == Unwrap(cb.cell)
                 image == from_raw(cache.dims.width, cache.dims.height,
                                   cache.output_buffer)
             IN  [panic |-> image = None,
                  cell |-> Written(cb.cell, cb.cmd_buf),
                  file |-> image,
                  used |-> Some(cache),
                  groups |-> Some(cb.cmd_buf.dispatch.groups),
                  allocs |-> cb.allocs,
                  trace |-> cb.trace \o <<"dispatch_submit", "output_read",
                                          "dispatch_wait", "file_encode">>]

\* export_core: build and execute the command buffer, wait for its fence, then
\* take the entry, read its output buffer, encode the file, put the entry back
export_core(cell) ==
    LET cb == command_buffer(cell)
        done == Written(cb.cell, cb.cmd_buf)
    IN  IF cb.panic \/ done = None
        THEN [panic |-> TRUE, cell |-> None, file |-> None, used |-> None,
              groups |-> None, allocs |-> cb.allocs, trace |-> cb.trace]
        ELSE LET cache == Unwrap(done)
                 image == from_raw(cache.dims.width, cache.dims.height,
                                   cache.output_buffer)
             IN  [panic |-> image = None,
                  cell |-> IF image = None THEN None ELSE Some(cache),
                  file |-> image,
                  used |-> Some(cache),
                  groups |-> Some(cb.cmd_buf.dispatch.groups),
                  allocs |-> cb.allocs,
                  trace |-> cb.trace \o <<"dispatch_submit", "dispatch_wait", "output_read">>
                            \o (IF image = None THEN <<>> ELSE <<"file_encode">>)]

\* JuliaExport::export
export(cell, dims, data) ==
    LET looked == export_lookup(cell, dims, data)
        core == export_core(looked.cell)
    IN  [core EXCEPT !.allocs = looked.allocs \o @, !.trace = looked.trace \o @]
        @@ [hit |-> looked.hit]

(***************************************************************************)
(* src/lib.rs: JuliaExport (the export cache of JuliaContext)              *)
(***************************************************************************)
\* regen_cache: as above, but the descriptor set and the command buffer are
\* built here and the command buffer is stored in the entry
lib_regen_cache(dims, data) ==
    LET key == Key(dims, data)
        input_buffer == [built_for |-> key, contents |-> into_shader_data(data)]
        image == [built_for |-> key, width |-> dims.width, height |-> dims.height,
                  pixels |-> Blank]
        desc_set == [image |-> image, buffer |-> input_buffer]
        output_buffer == [built_for |-> key, len |-> OutputLen(dims), bytes |-> Blank]
        command_buffer_ == [dispatch |-> [groups |-> DispatchSize(dims.width, dims.height),
                                          desc_set |-> desc_set],
                            copy |-> [src |-> image, dst |-> output_buffer]]
    IN  [cell |-> Some([dims |-> dims, data |-> data, output_buffer |-> output_buffer,
                        command_buffer |-> command_buffer_]),
         allocs |-> <<"input_buffer", "image", "descriptor_set", "output_buffer",
                      "command_buffer">>,
         trace |-> <<"upload_record", "image_alloc", "desc_set_build", "output_alloc",
                     "cmd_buf_build", "upload_submit", "upload_wait">>]

\* the test of export in lib.rs: the entry is kept iff data does not differ
LibCacheMatches(c, dims, data) == ~(~JuliaDataEq(c.data, data))

\* export, up to the call of export_core
lib_export_lookup(cell, dims, data) ==
    IF cell = None
    THEN lib_regen_cache(dims, data) @@ [hit |-> FALSE]
    ELSE LET c == Unwrap(cell)
         IN  IF LibCacheMatches(c, dims, data)
             THEN [cell |-> Some(c), allocs |-> <<>>, trace |-> <<>>, hit |-> TRUE]
             ELSE lib_regen_cache(dims, data) @@ [hit |-> FALSE]

\* export_core: take().unwrap() the entry, execute its command buffer, wait for
\* the fence, read the output buffer, encode the file; the entry is dropped
lib_export_core(cell) ==
    IF cell = None
    THEN [panic |-> TRUE, cell |-> None, file |-> None, used |-> None,
          groups |-> None, allocs |-> <<>>, trace |-> <<>>]
    ELSE LET cache == Unwrap(cell)
             ex == Execute(cache.command_buffer)
             out == IF cache.output_buffer.built_for = ex.output_buffer.built_for
                    THEN ex.output_buffer ELSE cache.output_buffer
             image == from_raw(cache.dims.width, cache.dims.height, out)
         IN  [panic |-> image = None,
              cell |-> None,
              file |-> image,
              used |-> Some([cache EXCEPT !.output_buffer = out]),
              groups |-> Some(cache.command_buffer.dispatch.groups),
              allocs |-> <<>>,
              trace |-> <<"dispatch_submit", "dispatch_wait", "output_read">>
                        \o (IF image = None THEN <<>> ELSE <<"file_encode">>)]

\* JuliaExport::export of lib.rs
lib_export(cell, dims, data) ==
    LET looked == lib_export_lookup(cell, dims, data)
        core == lib_export_core(looked.cell)
    IN  [core EXCEPT !.allocs = looked.allocs \o @, !.trace = looked.trace \o @]
        @@ [hit |-> looked.hit]

(***************************************************************************)
(* src/export.rs, src/lib.rs: Debug for JuliaExport (the same code in both) *)
(***************************************************************************)
\* mutant: the entry taken for formatting is not put back
fmt_NoPutBack(cell) ==
    [cell |-> None,
     text |-> [cached_data |-> IF cell = None THEN None ELSE Some(Unwrap(cell).data)]]

\* fmt: take the entry, write "None" or the Debug form of its data, put the
\* entry (or the None) back
fmt(cell) ==
    LET cache == cell
    IN  [cell |-> cache,
         text |-> [cached_data |-> IF cache = None THEN None
                                   ELSE Some(Unwrap(cache).data)]]

(***************************************************************************)
(* Export calls                                                            *)
(***************************************************************************)
\* what is kept of a call: which cache, the arguments, and what it did
Observation(obj, dims, data, r) ==
    [obj |-> obj, dims |-> dims, data |-> data, hit |-> r.hit, panic |-> r.panic,
     allocs |-> r.allocs, trace |-> r.trace, used |-> r.used, groups |-> r.groups,
     file |-> r.file, formatted |-> formatted]

Running == IF last = None THEN TRUE ELSE ~Unwrap(last).panic

\* a run exercises one of the two caches: lib.rs and export.rs each define the
\* JuliaExport of a different build of the crate
Uses(obj) == IF last = None THEN TRUE ELSE Unwrap(last).obj = obj

\* `earlier` becomes the call before this one (its arguments and its file), or
\* stays an older one
Remember ==
    \/ /\ earlier' = IF last = None THEN None
                      ELSE Some([obj |-> Unwrap(last).obj, dims |-> Unwrap(last).dims,
                                 data |-> Unwrap(last).data, file |-> Unwrap(last).file])
       /\ adjacent' = (last # None)
    \/ /\ last # None
       /\ earlier # None
       /\ earlier' = earlier
       /\ adjacent' = FALSE

\* JuliaInterface::export -> export.rs JuliaExport::export(dims, data, ..)
Export(dims, data) ==
    /\ Running
    /\ Uses("export")
    /\ LET r == export(cached_data, dims, data)
       IN  /\ cached_data' = r.cell
           /\ last' = Some(Observation("export", dims, data, r))
    /\ Remember
    /\ formatted' = FALSE
    /\ UNCHANGED <<lib_cached_data, frameVars, otherVars>>

\* format!("{:?}", julia_export) on the JuliaExport of export.rs
Fmt ==
    /\ Running
    /\ Uses("export")
    /\ LET r == fmt(cached_data)
       IN  /\ cached_data' = r.cell
           /\ formatted' = TRUE
    /\ UNCHANGED <<lib_cached_data, last, earlier, adjacent, frameVars, otherVars>>

\* JuliaContext::export -> lib.rs JuliaExport::export(dims, data, ..)
LibExport(dims, data) ==
    /\ Running
    /\ Uses("lib")
    /\ LET r == lib_export(lib_cached_data, dims, data)
       IN  /\ lib_cached_data' = r.cell
           /\ last' = Some(Observation("lib", dims, data, r))
    /\ Remember
    /\ formatted' = FALSE
    /\ UNCHANGED <<cached_data, frameVars, otherVars>>

\* format!("{:?}", julia_export) on the JuliaExport of lib.rs
LibFmt ==
    /\ Running
    /\ Uses("lib")
    /\ LET r == fmt(lib_cached_data)
       IN  /\ lib_cached_data' = r.cell
           /\ formatted' = TRUE
    /\ UNCHANGED <<cached_data, last, earlier, adjacent, frameVars, otherVars>>

InitExport ==
    /\ cached_data = None
    /\ lib_cached_data = None
    /\ last = None
    /\ earlier = None
    /\ adjacent = FALSE
    /\ formatted = FALSE

(***************************************************************************)
(* src/interface.rs, src/image.rs, src/render.rs: one interactive frame    *)
(***************************************************************************)
\* A GpuFuture is the set of operations it stands for; each operation names
\* the operations that must have completed before the GPU may execute it.
Ops(fut) == {o.op : o \in fut}

now == {}

\* GpuFuture::then_execute: cmd runs after everything in fut
then_execute(fut, cmd, arg) == fut \cup {[op |-> cmd, after |-> Ops(fut), arg |-> arg]}

\* GpuFuture::join
join(a, b) == a \cup b

\* swapchain::acquire_next_image: the future of image idx becoming available
acquire_next_image(idx) == {[op |-> "acquire", after |-> {}, arg |-> idx]}

\* GpuFuture::then_swapchain_present
then_swapchain_present(fut, idx) ==
    fut \cup {[op |-> "present", after |-> Ops(fut), arg |-> idx]}

\* JuliaImage::draw_after: the compute dispatch, executed after `future`
image_draw_after(future, data) == then_execute(future, "dispatch", data)

\* JuliaImage::draw
image_draw(data) == image_draw_after(now, data)

\* JuliaRender::draw_after: the sampling draw, executed after `future`
render_draw_after(future, swapchain_image) == then_execute(future, "draw", swapchain_image)

\* mutant: the draw is chained after the acquisition alone
new_frame_NoJoin(st, idx) ==
    LET compute_future == image_draw(st.data)
        acquire_future == acquire_next_image(idx)
    IN  join(compute_future,
             then_swapchain_present(render_draw_after(acquire_future, idx), idx))

\* JuliaInterface::new_frame
new_frame(st, idx) ==
    LET compute_future == image_draw(st.data)
        acquire_future == acquire_next_image(idx)
    IN  then_swapchain_present(
            render_draw_after(join(compute_future, acquire_future), idx), idx)

Keys == {"PageUp", "PageDown", "Other"}

\* gradient midpoints are counted in hundredths: the step of the keys U and J
MidStep == 1
One == 100 * MidStep

\* mutant: the index is stored unchecked
set_active_midpt_NoCheck(st, idx) ==
    [st |-> [st EXCEPT !.active_midpt = idx], result |-> "Ok"]

\* JuliaState::set_active_midpt(idx)
set_active_midpt(st, idx) ==
    IF idx < 3
    THEN [st |-> [st EXCEPT !.active_midpt = idx], result |-> "Ok"]
    ELSE [st |-> st, result |-> "Err"]

\* mutant: the other midpoints are left where they are
adjust_active_midpt_NoPush(st, amount) ==
    [st EXCEPT !.data.color_midpoint[st.active_midpt + 1] = @ + amount]

\* JuliaState::adjust_active_midpt(amount): the active midpoint moves by amount
\* and takes along the midpoints it would cross
adjust_active_midpt(st, amount) ==
    LET idx == st.active_midpt
        midpt == st.data.color_midpoint[idx + 1] + amount
        moved == [i \in 1..3 |->
                     LET m == st.data.color_midpoint[i]
                     IN  IF (i - 1) < idx /\ m > midpt THEN midpt
                         ELSE IF (i - 1) > idx /\ m < midpt THEN midpt
                         ELSE IF (i - 1) = idx THEN midpt
                         ELSE m]
    IN  [st EXCEPT !.data.color_midpoint = moved]

\* the keys that select and move a gradient midpoint
MidptKeys == {"Key4", "Key5", "Key6", "U", "J"}

\* f32 literals of event_callback
Half == F32(1, 8388608, 0 - 24)        \* 0.5
Lit1_1 == F32(1, 9227469, 0 - 23)      \* 1.1
Lit30 == FromInt(30)                   \* 30.0

\* JuliaState: the setters event_callback calls
zoom(st, factor) ==
    [st EXCEPT !.data.extents = <<FMul(@[1], factor), FMul(@[2], factor)>>]
set_extents(st, extents) == [st EXCEPT !.data.extents = extents]
pan(st, offset) ==
    [st EXCEPT !.data.center = <<FAdd(@[1], offset[1]), FAdd(@[2], offset[2])>>]
set_center(st, center) == [st EXCEPT !.data.center = center]
set_n(st, n) == [st EXCEPT !.data.n = n]
set_iters(st, iters) == [st EXCEPT !.data.iters = iters]
close(st) == [st EXCEPT !.close_requested = TRUE]

\* JuliaState::set_active_color(idx)
set_active_color(st, idx) ==
    IF idx < 3
    THEN [st |-> [st EXCEPT !.active_color = idx], result |-> "Ok"]
    ELSE [st |-> st, result |-> "Err"]

\* mutant: the horizontal offset is not negated
update_and_get_offset_NoNeg(ms, new_pos, win_size, data) ==
    LET offset ==
            IF ms.dragging
            THEN LET diff == <<FSub(FromInt(new_pos[1]), FromInt(ms.pos[1])),
                               FSub(FromInt(new_pos[2]), FromInt(ms.pos[2]))>>
                     dims == <<FromInt(win_size[1]), FromInt(win_size[2])>>
                     ratio == <<FDiv(diff[1], dims[1]), FDiv(diff[2], dims[2])>>
                 IN  <<FMul(ratio[1], data.extents[1]), FMul(ratio[2], data.extents[2])>>
            ELSE <<FZero, FZero>>
    IN  [mouse_state |-> [ms EXCEPT !.pos = new_pos], offset |-> <<offset[1], offset[2]>>]

\* MouseState::update_and_get_offset(new_pos, win_size, state): the cursor
\* positions and the window size are whole numbers of logical pixels
update_and_get_offset(ms, new_pos, win_size, data) ==
    LET offset ==
            IF ms.dragging
            THEN LET diff == <<FSub(FromInt(new_pos[1]), FromInt(ms.pos[1])),
                               FSub(FromInt(new_pos[2]), FromInt(ms.pos[2]))>>
                     dims == <<FromInt(win_size[1]), FromInt(win_size[2])>>
                     ratio == <<FDiv(diff[1], dims[1]), FDiv(diff[2], dims[2])>>
                 IN  <<FMul(ratio[1], data.extents[1]), FMul(ratio[2], data.extents[2])>>
            ELSE <<FZero, FZero>>
    IN  [mouse_state |-> [ms EXCEPT !.pos = new_pos], offset |-> <<FNeg(offset[1]), offset[2]>>]

\* event_callback, WindowEvent::CursorMoved
cursor_moved(st, position, window_dims) ==
    LET r == update_and_get_offset(st.mouse_state, position, window_dims, st.data)
    IN  pan([st EXCEPT !.mouse_state = r.mouse_state], r.offset)

\* event_callback, WindowEvent::MouseInput of the left button: start_drag on
\* Pressed, stop_drag on Released
mouse_input(st, pressed) == [st EXCEPT !.mouse_state.dragging = pressed]

\* event_callback, WindowEvent::MouseWheel: the zoom factor of a scroll by y
wheel_factor(y) ==
    LET factor == FMul(Half, y)
    IN  IF FLt(factor, FZero) THEN FAdd(Lit1, FAbs(factor))
        ELSE FDiv(Lit1, FAdd(Lit1, factor))

mouse_wheel(st, y) == zoom(st, wheel_factor(y))

\* mutant: the export dimension grows by 4
add_40_By4(v) == AddU32(v, 4).value

\* event_callback, keys I and O: an export dimension += 40
add_40(v) == AddU32(v, 40).value

\* event_callback, keys K and L: if an export dimension > 40, it -= 40
sub_40(v) == IF LtU32(40, v) THEN SubU32(v, 40).value ELSE v

\* event_callback, WindowEvent::KeyboardInput of a pressed key; u32 arithmetic
\* wraps here, what a build with overflow checks does is event_overflows
event_callback(st, key) ==
    CASE key \in {"Q", "Escape"} -> close(st)
      [] key \in {"Add", "Equals"} -> zoom(st, FDiv(Lit1, Lit1_1))
      [] key = "Subtract" -> zoom(st, Lit1_1)
      [] key = "PageUp" -> set_n(st, AddU32(st.data.n, 1).value)
      [] key = "PageDown" -> IF LtU32(2, st.data.n)
                             THEN set_n(st, SubU32(st.data.n, 1).value) ELSE st
      [] key = "C" -> set_center(st, <<FZero, FZero>>)
      [] key = "Z" -> set_extents(st, <<Lit3_6, Lit3_6>>)
      [] key = "RBracket" -> set_iters(st, AddU32(st.data.iters, 10).value)
      [] key = "LBracket" -> IF ~LtU32(20, st.data.iters)
                             THEN set_iters(st, 10)
                             ELSE set_iters(st, SubU32(st.data.iters, 10).value)
      [] key = "Key1" -> set_active_color(st, 0).st
      [] key = "Key2" -> set_active_color(st, 1).st
      [] key = "Key3" -> set_active_color(st, 2).st
      [] key = "Key4" -> set_active_midpt(st, 0).st
      [] key = "Key5" -> set_active_midpt(st, 1).st
      [] key = "Key6" -> set_active_midpt(st, 2).st
      [] key = "U" -> adjust_active_midpt(st, MidStep)
      [] key = "J" -> adjust_active_midpt(st, 0 - MidStep)
      [] key = "I" -> [st EXCEPT !.export_dimensions.width = add_40(@)]
      [] key = "K" -> [st EXCEPT !.export_dimensions.width = sub_40(@)]
      [] key = "O" -> [st EXCEPT !.export_dimensions.height = add_40(@)]
      [] key = "L" -> [st EXCEPT !.export_dimensions.height = sub_40(@)]
      [] key = "W" -> pan(st, <<FZero, FDiv(st.data.extents[2], Lit30)>>)
      [] key = "A" -> pan(st, <<FDiv(FNeg(st.data.extents[2]), Lit30), FZero>>)
      [] key = "S" -> pan(st, <<FZero, FDiv(FNeg(st.data.extents[2]), Lit30)>>)
      [] key = "D" -> pan(st, <<FDiv(st.data.extents[2], Lit30), FZero>>)
      [] key = "E" -> [st EXCEPT !.export_requested = TRUE]
      [] OTHER -> st

\* the u32 addition or subtraction event_callback makes for key leaves u32:
\* a build with overflow checks panics there
event_overflows(st, key) ==
    CASE key = "PageUp" -> AddU32(st.data.n, 1).overflow
      [] key = "PageDown" -> LtU32(2, st.data.n) /\ SubU32(st.data.n, 1).overflow
      [] key = "RBracket" -> AddU32(st.data.iters, 10).overflow
      [] key = "LBracket" -> LtU32(20, st.data.iters) /\ SubU32(st.data.iters, 10).overflow
      [] key = "I" -> AddU32(st.export_dimensions.width, 40).overflow
      [] key = "K" -> LtU32(40, st.export_dimensions.width)
                      /\ SubU32(st.export_dimensions.width, 40).overflow
      [] key = "O" -> AddU32(st.export_dimensions.height, 40).overflow
      [] key = "L" -> LtU32(40, st.export_dimensions.height)
                      /\ SubU32(st.export_dimensions.height, 40).overflow
      [] OTHER -> FALSE

MaxPresses == 3     \* key presses handled

\* the event loop hands a pressed key to event_callback
KeyPress(key) ==
    /\ polled < MaxPresses
    /\ state' = event_callback(state, key)
    /\ polled' = polled + 1
    /\ UNCHANGED <<swap_idx, submitted, completed, frame_pc, frames, probe, run, exportVars>>

\* midpoints the keys can have produced from default_state: non-decreasing, on
\* the grid of hundredths, here within [0, 1]
MidptGrid == {0, MidStep, One \div 4, One - MidStep, One}

InitKeys ==
    /\ \E m \in [1..3 -> MidptGrid], a \in 0..2 :
           /\ m[1] <= m[2] /\ m[2] <= m[3]
           /\ state = [data |-> [BaseData EXCEPT !.color_midpoint = m], active_midpt |-> a]
    /\ swap_idx = 0
    /\ submitted = {}
    /\ completed = {}
    /\ frame_pc = "idle"
    /\ frames = 0

\* JuliaInterface::update up to the flush: poll the events, build the frame's
\* future and submit it with a fence
Update(key, idx) ==
    /\ frame_pc = "idle"
    /\ frames < MaxFrames
    /\ key = "PageUp" => state.data.n < MaxN
    /\ state' = event_callback(state, key)
    /\ submitted' = new_frame(state', idx)
    /\ completed' = {}
    /\ swap_idx' = idx
    /\ frame_pc' = "waiting"
    /\ UNCHANGED <<frames, exportVars, otherVars>>

\* the GPU executes a submitted operation all of whose predecessors completed
GpuExecute(o) ==
    /\ frame_pc = "waiting"
    /\ o \in submitted
    /\ o.op \notin completed
    /\ o.after \subseteq completed
    /\ completed' = completed \cup {o.op}
    /\ UNCHANGED <<state, swap_idx, submitted, frame_pc, frames, exportVars, otherVars>>

\* mutant: update does not wait for the fence
FenceWait_NoWait ==
    /\ frame_pc = "waiting"
    /\ frame_pc' = "idle"
    /\ frames' = frames + 1
    /\ UNCHANGED <<state, swap_idx, submitted, completed, exportVars, otherVars>>

\* JuliaInterface::update: finished.wait(None) returns once the fence signalled
FenceWait ==
    /\ frame_pc = "waiting"
    /\ Ops(submitted) \subseteq completed
    /\ frame_pc' = "idle"
    /\ frames' = frames + 1
    /\ UNCHANGED <<state, swap_idx, submitted, completed, exportVars, otherVars>>

InitFrame ==
    /\ state = [data |-> BaseData]
    /\ swap_idx = 0
    /\ submitted = {}
    /\ completed = {}
    /\ frame_pc = "idle"
    /\ frames = 0

(***************************************************************************)
(* Single calls: probe holds the function called, its argument and, once   *)
(* the call returned, its outcome.                                         *)
(***************************************************************************)
Called(fn, arg) == [fn |-> fn, arg |-> arg, out |-> None]

\* no call probed
NoProbe == [fn |-> "none", arg |-> None, out |-> None]

\* the call recorded in probe returns out
Return(fn, out) ==
    /\ probe.fn = fn
    /\ probe.out = None
    /\ probe' = [probe EXCEPT !.out = Some(out)]
    /\ UNCHANGED <<polled, run, exportVars, frameVars>>

\* u32 widths and heights: small ones, powers of two around 2^16, the largest
U32Inputs ==
    {ToLimbs(n, U32Digits) : n \in {1, LocalSize, MaxDim, 2 ^ 15, 2 ^ 16, 2 ^ 30 + (2 ^ 30 - 1)}}
        \cup {[i \in 1..U32Digits |-> Base - 1]}

OutputLenCalls ==
    {Called("output_len", [width |-> w, height |-> h, overflow_checks |-> chk]) :
        w \in U32Inputs, h \in U32Inputs, chk \in BOOLEAN}

\* regen_cache computes the length of the output buffer
OutputLenCall ==
    Return("output_len",
           output_len(probe.arg.width, probe.arg.height, probe.arg.overflow_checks))


\* channel values of a pixel of the output buffer
Levels == {0, 2 ^ 6, 2 ^ 7, Base - 1}

\* an output buffer holding the one RGBA8 pixel of a 1 x 1 image
PixelBuffers == {[len |-> BytesPerPixel, bytes |-> px] : px \in [1..BytesPerPixel -> Levels]}

ReadBackCalls ==
    {Called("read_back", [dims |-> [width |-> 1, height |-> 1], output_buffer |-> b]) :
        b \in PixelBuffers}

\* export_core after the fence wait: the output buffer is read, wrapped in an
\* ImageBuffer and saved
ReadBackCall ==
    Return("read_back",
           from_raw(probe.arg.dims.width, probe.arg.dims.height, probe.arg.output_buffer))

\* gradient colours: opaque greys, channels on the 8-bit scale
ProbeColors == {[i \in 1..BytesPerPixel |-> IF i < BytesPerPixel THEN l ELSE Base - 1] : l \in Levels}

IntoShaderDataCalls ==
    {Called("into_shader_data", [BaseData EXCEPT !.color = <<c1, c2, c3>>]) :
        c1 \in ProbeColors, c2 \in ProbeColors, c3 \in ProbeColors}

\* draw_after / regen_cache marshal the ParameterSet for upload
IntoShaderDataCall == Return("into_shader_data", into_shader_data(probe.arg))


(***************************************************************************)
(* Failures inside an export call                                          *)
(***************************************************************************)
\* the fallible steps of export on an empty cache, in the order of the code:
\* regen_cache, command_buffer, export_core
ExportSteps ==
    <<"from_data", "StorageImage::new", "from_iter", "upload_flush", "upload_wait",
      "add_image", "add_buffer", "desc_set_build",
      "AutoCommandBufferBuilder::new", "dispatch", "copy_image_to_buffer", "cmd_buf_build",
      "execute", "then_signal_fence_and_flush", "wait", "read", "from_raw", "save">>

\* a step returning Err; partial: image.save had created the file and written
\* part of it when the write failed
Faults ==
    {[step |-> ExportSteps[i], partial |-> FALSE] : i \in 1..Len(ExportSteps)}
        \cup {[step |-> "save", partial |-> TRUE]}

RECURSIVE run_steps(_, _, _)
\* every step is `step(..).unwrap()`: the steps up to the first that returns Err
\* run once each, and that Err panics
run_steps(i, fault, trace) ==
    IF i > Len(ExportSteps) THEN [panic |-> FALSE, trace |-> trace]
    ELSE IF fault # None /\ Unwrap(fault).step = ExportSteps[i]
         THEN [panic |-> TRUE, trace |-> Append(trace, ExportSteps[i])]
         ELSE run_steps(i + 1, fault, Append(trace, ExportSteps[i]))

\* export(dims, data, filename, context) -> () with one step failing, or none;
\* file: what the destination path holds afterwards ("absent", "old", "partial"
\* or "new")
export_faulted(fault, previous) ==
    LET ran == run_steps(1, fault, <<>>)
    IN  [panic |-> ran.panic,
         returned |-> IF ran.panic THEN None ELSE Some("()"),
         trace |-> ran.trace,
         file |-> IF ~ran.panic THEN "new"
                  ELSE IF Unwrap(fault).step = "save" /\ Unwrap(fault).partial
                       THEN "partial" ELSE previous]

ExportFaultedCalls ==
    {Called("export", [fault |-> f, previous |-> p]) :
        f \in {None} \cup {Some(x) : x \in Faults}, p \in {"absent", "old"}}

ExportFaultedCall == Return("export", export_faulted(probe.arg.fault, probe.arg.previous))


(***************************************************************************)
(* src/image.rs: failures inside JuliaImage::draw_after                    *)
(***************************************************************************)
\* the fallible steps of draw_after in the order of the code, the type of the
\* error each returns, and whether the code applies `?` or `.unwrap()` to it
DrawAfterSteps ==
    <<[step |-> "buffer_pool.next", err |-> "DeviceMemoryAllocError", handled |-> "?"],
      [step |-> "add_image", err |-> "PersistentDescriptorSetError", handled |-> "unwrap"],
      [step |-> "add_buffer", err |-> "PersistentDescriptorSetError", handled |-> "unwrap"],
      [step |-> "desc_set.build", err |-> "PersistentDescriptorSetBuildError", handled |-> "?"],
      [step |-> "primary_one_time_submit", err |-> "OomError", handled |-> "?"],
      [step |-> "dispatch", err |-> "DispatchError", handled |-> "?"],
      [step |-> "cmd_buf.build", err |-> "BuildError", handled |-> "?"],
      [step |-> "then_execute", err |-> "CommandBufferExecError", handled |-> "?"]>>

DrawAfterStepNames == {DrawAfterSteps[i].step : i \in 1..Len(DrawAfterSteps)}

\* impl From<..> for JuliaImageError
JuliaImageErrorFrom(err) ==
    CASE err = "ImageCreationError" -> "VkImageErr"
      [] err = "DeviceMemoryAllocError" -> "VkAllocErr"
      [] err = "PersistentDescriptorSetBuildError" -> "VkDescSetErr"
      [] err = "OomError" -> "VkOomErr"
      [] err = "DispatchError" -> "VkDispatchErr"
      [] err = "BuildError" -> "VkCmdBufBuildErr"
      [] err = "CommandBufferExecError" -> "VkExecErr"

RECURSIVE draw_after_from(_, _)
\* the steps from the i-th on, failed being the step that returns Err (if any)
draw_after_from(i, failed) ==
    IF i > Len(DrawAfterSteps) THEN [panic |-> FALSE, returned |-> Some([ok |-> "future"])]
    ELSE LET s == DrawAfterSteps[i]
         IN  IF failed = Some(s.step)
             THEN IF s.handled = "?"
                  THEN [panic |-> FALSE,
                        returned |-> Some([err |-> JuliaImageErrorFrom(s.err)])]
                  ELSE [panic |-> TRUE, returned |-> None]
             ELSE draw_after_from(i + 1, failed)

draw_after(failed) == draw_after_from(1, failed)

DrawAfterCalls ==
    {Called("draw_after", [failed |-> f]) :
        f \in {None} \cup {Some(s) : s \in DrawAfterStepNames}}

DrawAfterCall == Return("draw_after", draw_after(probe.arg.failed))


(***************************************************************************)
(* src/lib.rs: device selection and JuliaContext::new                      *)
(***************************************************************************)
MaxDevices == 2     \* physical devices enumerated

\* PhysicalDeviceType, in the order find_best_physical_device tries them
DeviceTypes == <<"DiscreteGpu", "IntegratedGpu", "VirtualGpu", "Cpu", "Other">>

\* queue families of a device: whether the family supports compute, and its
\* number of queues (at least one)
FamilyLists ==
    {<<[compute |-> FALSE, count |-> 1]>>,
     <<[compute |-> TRUE, count |-> 1]>>,
     <<[compute |-> FALSE, count |-> 2], [compute |-> TRUE, count |-> 2]>>,
     <<[compute |-> TRUE, count |-> 1], [compute |-> TRUE, count |-> 2]>>}

\* ext: DeviceExtensions::supported_by_device(d).khr_storage_buffer_storage_class
PhysicalDevices(families) ==
    [ty : {DeviceTypes[i] : i \in 1..Len(DeviceTypes)}, ext : BOOLEAN, families : families]

RECURSIVE compute_queues_from(_, _)
compute_queues_from(fams, i) ==
    IF i > Len(fams) THEN 0
    ELSE (IF fams[i].compute THEN fams[i].count ELSE 0) + compute_queues_from(fams, i + 1)

num_compute_queues(dev) == compute_queues_from(dev.families, 1)

\* Iterator::max_by_key over the devices at the indices in cand (not empty):
\* the last of the devices with the largest key
max_by_key(devs, cand) ==
    CHOOSE i \in cand :
        \A j \in cand : \/ num_compute_queues(devs[j]) < num_compute_queues(devs[i])
                        \/ (num_compute_queues(devs[j]) = num_compute_queues(devs[i]) /\ j <= i)

\* mutant: the first device of the type with the extension, whatever its queues
find_best_by_type_First(devs, ty) ==
    LET cand == {i \in 1..Len(devs) : devs[i].ty = ty /\ devs[i].ext}
    IN  IF cand = {} THEN None
        ELSE LET d == CHOOSE i \in cand : \A j \in cand : i <= j
                 fams == {j \in 1..Len(devs[d].families) : devs[d].families[j].compute}
             IN  IF fams = {} THEN None
                 ELSE Some([device |-> d, family |-> CHOOSE j \in fams : \A k \in fams : j <= k])

\* the device of type ty with the extension and the most compute queues, and
\* its first queue family that supports compute
find_best_by_type(devs, ty) ==
    LET cand == {i \in 1..Len(devs) : devs[i].ty = ty /\ devs[i].ext}
    IN  IF cand = {} THEN None
        ELSE LET d == max_by_key(devs, cand)
                 fams == {j \in 1..Len(devs[d].families) : devs[d].families[j].compute}
             IN  IF fams = {} THEN None
                 ELSE Some([device |-> d, family |-> CHOOSE j \in fams : \A k \in fams : j <= k])

RECURSIVE or_else_from(_, _, _)
\* find_best_by_type(types[k]).or_else(|| find_best_by_type(types[k + 1])) ...
or_else_from(devs, types, k) ==
    IF k > Len(types) THEN None
    ELSE LET found == find_best_by_type(devs, types[k])
         IN  IF found # None THEN found ELSE or_else_from(devs, types, k + 1)

\* mutant: the type Other is not tried
find_best_physical_device_NoOther(devs) ==
    or_else_from(devs, SubSeq(DeviceTypes, 1, Len(DeviceTypes) - 1), 1)

find_best_physical_device(devs) == or_else_from(devs, DeviceTypes, 1)

\* the steps of JuliaContext::new that can fail for a reason other than the
\* devices present
CreationFailures == {"InstanceCreation", "DeviceCreation", "ShaderLoad", "ComputePipelineCreation"}

\* JuliaContext::new() where env.devices are the physical devices present and
\* env.failure is the step that fails (if any); device: the physical device and
\* queue family a logical device was created on
JuliaContext_new(env) ==
    IF env.failure = Some("InstanceCreation")
    THEN [returned |-> [err |-> "InstanceCreation"], device |-> None]
    ELSE LET found == find_best_physical_device(env.devices)
         IN  IF found = None
             THEN [returned |-> [err |-> "DeviceDiscovery"], device |-> None]
             ELSE IF env.failure = Some("DeviceCreation")
             THEN [returned |-> [err |-> "DeviceCreation"], device |-> None]
             ELSE IF env.failure # None
             THEN [returned |-> [err |-> Unwrap(env.failure)], device |-> found]
             ELSE [returned |-> [ok |-> "JuliaContext"], device |-> found]

\* the machine gets one more physical device before the call is made:
\* PhysicalDevice::enumerate(instance) yields the devices in this order
Plug(dev) ==
    /\ probe.fn \in {"find_best_physical_device", "JuliaContext::new"}
    /\ probe.out = None
    /\ Len(probe.arg.devices) < MaxDevices
    /\ probe' = [probe EXCEPT !.arg.devices = Append(@, dev)]
    /\ UNCHANGED <<polled, run, exportVars, frameVars>>

FindCalls == {Called("find_best_physical_device", [devices |-> <<>>])}

FindCall == Return("find_best_physical_device", find_best_physical_device(probe.arg.devices))

NewCalls ==
    {Called("JuliaContext::new", [devices |-> <<>>, failure |-> f]) :
        f \in {None} \cup {Some(x) : x \in CreationFailures}}

NewCall == Return("JuliaContext::new", JuliaContext_new(probe.arg))


(***************************************************************************)
(* src/interface.rs: JuliaInterface::run, its events and its exports       *)
(***************************************************************************)
MaxEvents == 2      \* window events polled

\* run.pc: "none" (run not called), "test" (at the loop condition), "update"
\* (update polls events), "updated" (update submitted the frame), "exporting"
\* (in export), "returned", "panicked"; run.pending: the events the windowing
\* system delivered that poll_events has not handed out yet, oldest first
NoRun == [pc |-> "none", overflow_checks |-> FALSE, requested |-> FALSE,
          e_presses |-> 0, exports |-> 0, result |-> None,
          pending |-> <<>>, delivered |-> 0]

\* JuliaInterface::new: the state the interface starts in
JuliaInterface_new(init_state, init_export_dimensions) ==
    [data |-> init_state,
     mouse_state |-> [pos |-> <<0, 0>>, dragging |-> FALSE],
     active_color |-> 0,
     active_midpt |-> 1,
     close_requested |-> FALSE,
     export_dimensions |-> init_export_dimensions,
     export_requested |-> FALSE]

\* update is polling the window's events
Polling == run.pc = "update" /\ frame_pc = "idle" /\ polled < MaxEvents

\* an event whose handling leaves the state st
Handled(st) ==
    /\ state' = st
    /\ polled' = polled + 1
    /\ UNCHANGED <<swap_idx, submitted, completed, frame_pc, frames, probe, exportVars>>

\* poll_events hands event_callback a pressed key; where the u32 arithmetic
\* overflows, a build with overflow checks panics and another build wraps
PollKey(key) ==
    /\ Polling
    /\ IF run.overflow_checks /\ event_overflows(state, key)
       THEN /\ run' = [run EXCEPT !.pc = "panicked"]
            /\ Handled(state)
       ELSE /\ run' = [run EXCEPT !.e_presses = IF key = "E" THEN @ + 1 ELSE @]
            /\ Handled(event_callback(state, key))

PollCursorMoved(position, window_dims) ==
    /\ Polling
    /\ Handled(cursor_moved(state, position, window_dims))
    /\ UNCHANGED run

PollMouseInput(pressed) ==
    /\ Polling
    /\ Handled(mouse_input(state, pressed))
    /\ UNCHANGED run

PollMouseWheel(y) ==
    /\ Polling
    /\ Handled(mouse_wheel(state, y))
    /\ UNCHANGED run

PollCloseRequested ==
    /\ Polling
    /\ Handled(close(state))
    /\ UNCHANGED run

\* mutant: the loop goes on after a close request
loop_continues_Always(st) == TRUE

\* JuliaInterface::run: while !self.state.close_requested()
loop_continues(st) == ~st.close_requested

\* the loop condition is evaluated: another iteration starts with update, or
\* run returns Ok(())
LoopTest ==
    /\ run.pc = "test"
    /\ run' = IF loop_continues(state)
              THEN [run EXCEPT !.pc = "update", !.requested = FALSE,
                               !.e_presses = 0, !.exports = 0]
              ELSE [run EXCEPT !.pc = "returned", !.result = Some("Ok")]
    /\ UNCHANGED <<polled, probe, exportVars, frameVars>>

\* update, after the events: the frame's future is built and submitted with a
\* fence
SubmitFrame(idx) ==
    /\ run.pc = "update"
    /\ frame_pc = "idle"
    /\ submitted' = new_frame(state, idx)
    /\ completed' = {}
    /\ swap_idx' = idx
    /\ frame_pc' = "waiting"
    /\ run' = [run EXCEPT !.pc = "updated", !.requested = state.export_requested]
    /\ UNCHANGED <<state, frames, polled, probe, exportVars>>

Submit(idx) == frames < MaxFrames /\ SubmitFrame(idx)

\* update, after the events: new_frame(context)? fails, update returns the
\* error and so does run
NewFrameErr ==
    /\ run.pc = "update"
    /\ frame_pc = "idle"
    /\ run' = [run EXCEPT !.pc = "returned", !.result = Some("Err")]
    /\ UNCHANGED <<polled, probe, exportVars, frameVars>>

\* run, after update returned Ok: no export was requested
SkipExport ==
    /\ run.pc = "updated"
    /\ frame_pc = "idle"
    /\ ~state.export_requested
    /\ run' = [run EXCEPT !.pc = "test"]
    /\ UNCHANGED <<polled, probe, exportVars, frameVars>>

\* run, after update returned Ok: self.export(context) is called
ExportBegin ==
    /\ run.pc = "updated"
    /\ frame_pc = "idle"
    /\ state.export_requested
    /\ run' = [run EXCEPT !.pc = "exporting"]
    /\ UNCHANGED <<polled, probe, exportVars, frameVars>>

\* mutant: the extents of the other axis are scaled
export_data_OtherAxis(st) ==
    LET width == st.export_dimensions.width
        height == st.export_dimensions.height
    IN  IF width # height
        THEN IF LtU32(width, height)
             THEN [st.data EXCEPT
                      !.extents[1] = FMul(@, FDiv(FromU32(height), FromU32(width)))]
             ELSE [st.data EXCEPT
                      !.extents[2] = FMul(@, FDiv(FromU32(width), FromU32(height)))]
        ELSE st.data

\* JuliaInterface::export: the ParameterSet handed to the export cache
export_data(st) ==
    LET width == st.export_dimensions.width
        height == st.export_dimensions.height
    IN  IF width # height
        THEN IF LtU32(width, height)
             THEN [st.data EXCEPT
                      !.extents[2] = FMul(@, FDiv(FromU32(height), FromU32(width)))]
             ELSE [st.data EXCEPT
                      !.extents[1] = FMul(@, FDiv(FromU32(width), FromU32(height)))]
        ELSE st.data

\* mutant: the request stays set after the export
after_export_NoReset(st) == st

\* run, after self.export(context): self.state.export_requested = false
after_export(st) == [st EXCEPT !.export_requested = FALSE]

\* JuliaInterface::export runs the export cache's export with the export
\* dimensions, drops the events that arrived meanwhile, and returns to run,
\* which clears the request
ExportReturn ==
    /\ run.pc = "exporting"
    /\ LET r == export(cached_data, state.export_dimensions, export_data(state))
       IN  /\ cached_data' = r.cell
           /\ last' = Some(Observation("export", state.export_dimensions,
                                       export_data(state), r))
           /\ run' = [run EXCEPT !.pc = IF r.panic THEN "panicked" ELSE "test",
                                 !.exports = @ + 1,
                                 !.pending = <<>>]
    /\ Remember
    /\ formatted' = FALSE
    /\ state' = after_export(state)
    /\ UNCHANGED <<lib_cached_data, swap_idx, submitted, completed, frame_pc, frames,
                   polled, probe>>


\* the pressed keys event_callback distinguishes, but for the arrows, the
\* colour keys (R F T G Y H) and the midpoint keys (U J), and one it ignores
EventKeys ==
    {"Q", "Escape", "Add", "Equals", "Subtract", "PageUp", "PageDown", "C", "Z",
     "RBracket", "LBracket", "Key1", "Key2", "Key3", "Key4", "Key5", "Key6",
     "I", "K", "O", "L", "W", "A", "S", "D", "E", "Other"}

\* cursor positions and the window's inner size, in logical pixels
Positions == {<<10, 4>>, <<3, 9>>}
WindowDims == {<<800, 600>>}

\* scroll amounts of a wheel event: y of LineDelta or PixelDelta
WheelDeltas == {FromInt(0 - 1), FromInt(1), FromInt(2)}

\* the default extents 3.6 after 150 wheel events of scroll amount 2.0, each
\* of which halves them: 127 halvings are exact and reach 15099494 * 2^-149,
\* 23 more round the significand down to 2
Scrolled(st) == set_extents(st, <<F32(1, 2, MinExp), F32(1, 2, MinExp)>>)

\* states of the interface: the initial one, and states that PageUp, ], I, O,
\* the wheel and the left button lead to from it
EventStates ==
    LET init == JuliaInterface_new(BaseData, [width |-> 80, height |-> 40])
    IN  {init, Scrolled(init), mouse_input(init, TRUE)}
        \cup {set_n(init, n) : n \in {3, U32Max}}
        \cup {set_iters(init, i) : i \in {1, 20, 30, U32Max - 9}}
        \cup {[init EXCEPT !.export_dimensions.width = w] : w \in {1, 41, U32Max - 39}}
        \cup {[init EXCEPT !.export_dimensions.height = h] : h \in {81, U32Max}}

InitEvents ==
    /\ state \in EventStates
    /\ run \in {[NoRun EXCEPT !.pc = "update", !.overflow_checks = oc] : oc \in BOOLEAN}
    /\ polled = 0
    /\ probe = NoProbe
    /\ swap_idx = 0
    /\ submitted = {}
    /\ completed = {}
    /\ frame_pc = "idle"
    /\ frames = 0

\* keys polled by the frames of run
RunKeys == {"E", "Q", "Escape", "I", "PageUp"}

InitRun ==
    /\ state \in {JuliaInterface_new(BaseData, dims) : dims \in DimsSet}
    /\ run \in {[NoRun EXCEPT !.pc = "test", !.overflow_checks = oc] : oc \in BOOLEAN}
    /\ polled = 0
    /\ probe = NoProbe
    /\ swap_idx = 0
    /\ submitted = {}
    /\ completed = {}
    /\ frame_pc = "idle"
    /\ frames = 0

(***************************************************************************)
(* A zoom-in event followed by the opposite zoom-out event                 *)
(***************************************************************************)
\* A rational n/d is the pair <<n, d>> with d > 0.
QMul(a, b) == <<a[1] * b[1], a[2] * b[2]>>
QAdd(a, b) == <<a[1] * b[2] + b[1] * a[2], a[2] * b[2]>>
QInv(a) == IF a[1] < 0 THEN <<0 - a[2], 0 - a[1]>> ELSE <<a[2], a[1]>>
QAbs(a) == <<IF a[1] < 0 THEN 0 - a[1] ELSE a[1], a[2]>>
QNeg(a) == <<0 - a[1], a[2]>>
QLt(a, b) == a[1] * b[2] < b[1] * a[2]
QEq(a, b) == a[1] * b[2] = b[1] * a[2]
\* the f32 nearest to the rational a
FromQ(a) == FDiv(FromInt(a[1]), FromInt(a[2]))

\* mutant: scrolling down zooms out by 1 + |y|
wheel_factor_Q_Steeper(y) ==
    LET factor == QMul(<<1, 2>>, y)
    IN  IF QLt(factor, <<0, 1>>) THEN QAdd(<<1, 1>>, QAbs(y))
        ELSE QInv(QAdd(<<1, 1>>, factor))

\* the factor of a wheel event of scroll amount y, in exact arithmetic
wheel_factor_Q(y) ==
    LET factor == QMul(<<1, 2>>, y)
    IN  IF QLt(factor, <<0, 1>>) THEN QAdd(<<1, 1>>, QAbs(factor))
        ELSE QInv(QAdd(<<1, 1>>, factor))

\* the factors of keys + and -, in exact arithmetic
add_factor_Q == QInv(<<11, 10>>)
subtract_factor_Q == <<11, 10>>

\* zoom, in exact arithmetic
zoom_Q(extents, factor) == <<QMul(extents[1], factor), QMul(extents[2], factor)>>

\* extents a view can have, as rationals: the default ones and others
ZoomViews ==
    {<<<<18, 5>>, <<18, 5>>>>, <<<<18, 5>>, <<37, 10>>>>, <<<<1, 1>>, <<1, 5>>>>,
     <<<<1, 2 ^ 20>>, <<3, 2 ^ 20>>>>, <<<<2 ^ 20 + 1, 1>>, <<7, 3>>>>}
ZoomDeltas == {<<1, 1>>, <<2, 1>>, <<3, 1>>, <<0 - 1, 1>>, <<1, 2>>, <<0, 1>>}

\* event_callback on a wheel event of scroll amount delta and then on one of
\* scroll amount -delta, or on key + and then on key -, from extents view; the
\* extents between and after the two events, as the f32 arithmetic of the code
\* gives them and as exact arithmetic gives them
zoom_pair(pair, delta, view) ==
    LET st0 == JuliaInterface_new([BaseData EXCEPT !.extents = <<FromQ(view[1]), FromQ(view[2])>>],
                                  [width |-> 80, height |-> 40])
        st1 == IF pair = "wheel" THEN mouse_wheel(st0, FromQ(delta))
               ELSE event_callback(st0, "Add")
        st2 == IF pair = "wheel" THEN mouse_wheel(st1, FNeg(FromQ(delta)))
               ELSE event_callback(st1, "Subtract")
        q1 == IF pair = "wheel" THEN zoom_Q(view, wheel_factor_Q(delta))
              ELSE zoom_Q(view, add_factor_Q)
        q2 == IF pair = "wheel" THEN zoom_Q(q1, wheel_factor_Q(QNeg(delta)))
              ELSE zoom_Q(q1, subtract_factor_Q)
    IN  [before |-> st0.data.extents, between |-> st1.data.extents,
         after |-> st2.data.extents, between_Q |-> q1, after_Q |-> q2]

ZoomPairCalls ==
    {Called("zoom_pair", [pair |-> "wheel", delta |-> y, view |-> v]) :
        y \in ZoomDeltas, v \in ZoomViews}
    \cup {Called("zoom_pair", [pair |-> "keys", delta |-> <<0, 1>>, view |-> v]) :
             v \in ZoomViews}

ZoomPairCall ==
    Return("zoom_pair", zoom_pair(probe.arg.pair, probe.arg.delta, probe.arg.view))

(***************************************************************************)
(* src/main.rs: the command line. A string is the sequence of its          *)
(* characters.                                                             *)
(***************************************************************************)
MaxComponents == 5    \* components of a gradient string

\* palette::named::from_str: the colors of the CSS3 names (three of them)
named_from_str(s) ==
    CASE s = <<"r", "e", "d">> -> Some(<<255, 0, 0>>)
      [] s = <<"b", "l", "u", "e">> -> Some(<<0, 0, 255>>)
      [] s = <<"t", "e", "a", "l">> -> Some(<<0, 128, 128>>)
      [] OTHER -> None

\* f32::from_str, on the decimal literals that are given to it here
f32_from_str(s) ==
    CASE s = <<"0", ".", "5">> -> Some(Half)
      [] s = <<"1", ".", "5">> -> Some(F32(1, 12582912, 0 - 23))
      [] s = <<"-", "1">> -> Some(FromInt(0 - 1))
      [] s = <<"0">> -> Some(FZero)
      [] s = <<"1">> -> Some(Lit1)
      [] OTHER -> None

\* char::to_digit(16)
HexDigits ==
    <<"0", "1", "2", "3", "4", "5", "6", "7", "8", "9", "a", "b", "c", "d", "e", "f">>
UpperHexDigits == <<"A", "B", "C", "D", "E", "F">>
to_digit_16(c) ==
    IF \E d \in 1..16 : HexDigits[d] = c
    THEN Some((CHOOSE d \in 1..16 : HexDigits[d] = c) - 1)
    ELSE IF \E d \in 1..6 : UpperHexDigits[d] = c
    THEN Some((CHOOSE d \in 1..6 : UpperHexDigits[d] = c) + 9)
    ELSE None

\* mutant: two channels are enough, the third is 0
RECURSIVE parse_hexcode_Short(_, _, _, _)
parse_hexcode_Short(s, i, channels, current) ==
    IF i >= Len(s)
    THEN IF Len(channels) = 3 THEN Some(channels)
         ELSE IF Len(channels) = 2 THEN Some(Append(channels, 0))
         ELSE None
    ELSE LET c == s[i + 1]
         IN  IF Len(channels) >= 3 \/ (i = 0 /\ c # "#") THEN None
             ELSE IF i = 0 THEN parse_hexcode_Short(s, i + 1, channels, current)
             ELSE IF to_digit_16(c) = None THEN None
             ELSE LET shifted == (current * 16) % 256
                      sum == shifted + Unwrap(to_digit_16(c))
                  IN  IF i % 2 = 0
                      THEN parse_hexcode_Short(s, i + 1, Append(channels, sum), 0)
                      ELSE parse_hexcode_Short(s, i + 1, channels, sum)

\* parse_hexcode from character i (counted from 0) on, with the channels
\* pushed and the u8 current so far: Some(<<r, g, b>>) or None
RECURSIVE parse_hexcode(_, _, _, _)
parse_hexcode(s, i, channels, current) ==
    IF i >= Len(s)
    THEN IF Len(channels) # 3 THEN None ELSE Some(channels)
    ELSE LET c == s[i + 1]
         IN  IF Len(channels) >= 3 \/ (i = 0 /\ c # "#") THEN None
             ELSE IF i = 0 THEN parse_hexcode(s, i + 1, channels, current)
             ELSE IF to_digit_16(c) = None THEN None
             ELSE LET shifted == (current * 16) % 256
                      sum == shifted + Unwrap(to_digit_16(c))
                  IN  IF i % 2 = 0
                      THEN parse_hexcode(s, i + 1, Append(channels, sum), 0)
                      ELSE parse_hexcode(s, i + 1, channels, sum)

\* named::from_str(s).or_else(|| parse_hexcode(s))
color_from_str(s) ==
    IF named_from_str(s) # None THEN named_from_str(s)
    ELSE parse_hexcode(s, 0, <<>>, 0)

\* Srgb::<f32>::from_format of an Srgb<u8>, then to_vec4
to_vec4(c) ==
    <<FDiv(FromInt(c[1]), FromInt(255)), FDiv(FromInt(c[2]), FromInt(255)),
      FDiv(FromInt(c[3]), FromInt(255)), Lit1>>
White == <<Lit1, Lit1, Lit1, Lit1>>

\* str::trim, for the space character
RECURSIVE trim_start(_)
trim_start(s) == IF s # <<>> /\ Head(s) = " " THEN trim_start(Tail(s)) ELSE s
RECURSIVE trim_end(_)
trim_end(s) ==
    IF s # <<>> /\ s[Len(s)] = " " THEN trim_end(SubSeq(s, 1, Len(s) - 1)) ELSE s
trim(s) == trim_end(trim_start(s))

\* s.split(','): the components of s, acc being the component begun
RECURSIVE split(_, _)
split(s, acc) ==
    IF s = <<>> THEN <<acc>>
    ELSE IF Head(s) = "," THEN <<acc>> \o split(Tail(s), <<>>)
    ELSE split(Tail(s), Append(acc, Head(s)))

\* s.split(',').map(str::trim)
components_of(s) == LET parts == split(s, <<>>) IN [i \in 1..Len(parts) |-> trim(parts[i])]

\* parse_gradient: Some([colors, midpt]) for Ok, None for Err(ParseGradientError)
parse_gradient(s) ==
    LET components == components_of(s)
        next(i) == IF i <= Len(components) THEN Some(components[i]) ELSE None
        must_be_color(o) == IF o = None THEN None ELSE color_from_str(Unwrap(o))
        c1 == must_be_color(next(1))
        c2 == must_be_color(next(2))
    IN  IF c1 = None THEN None
        ELSE IF c2 = None THEN None
        ELSE IF next(3) = None
        THEN Some([colors |-> <<to_vec4(Unwrap(c1)), to_vec4(Unwrap(c2)), White>>,
                   midpt |-> Lit1])
        ELSE IF color_from_str(Unwrap(next(3))) = None
        THEN IF f32_from_str(Unwrap(next(3))) = None THEN None
             ELSE IF next(4) # None THEN None
             ELSE Some([colors |-> <<to_vec4(Unwrap(c1)), to_vec4(Unwrap(c2)),
                                     to_vec4(Unwrap(c2))>>,
                        midpt |-> Unwrap(f32_from_str(Unwrap(next(3))))])
        ELSE LET c == to_vec4(Unwrap(color_from_str(Unwrap(next(3)))))
             IN  IF next(4) = None
                 THEN Some([colors |-> <<to_vec4(Unwrap(c1)), to_vec4(Unwrap(c2)), c>>,
                            midpt |-> Lit0_25])
                 ELSE IF f32_from_str(Unwrap(next(4))) = None THEN None
                 ELSE IF next(5) # None THEN None
                 ELSE Some([colors |-> <<to_vec4(Unwrap(c1)), to_vec4(Unwrap(c2)), c>>,
                            midpt |-> Unwrap(f32_from_str(Unwrap(next(4))))])

\* components a gradient string is made of: names, hex codes, numbers, and
\* strings that are none of these
Components ==
    {<<"r", "e", "d">>, <<" ", "b", "l", "u", "e", " ">>,
     <<"#", "0", "0", "F", "f", "8", "0">>, <<"#", "1", "2", "3", "4", "5">>,
     <<"0", ".", "5">>, <<"1", ".", "5">>, <<"-", "1">>, <<>>}
LateComponents == {<<"t", "e", "a", "l">>, <<"0">>}
\* near misses of a hex code: no '#', a digit too many, not a hex digit
NearHexCodes ==
    {<<"0", "0", "f", "f", "8", "0">>, <<"#", "0", "0", "f", "f", "8", "0", "1">>,
     <<"#", "0", "0", "f", "g", "8", "0">>, <<"#">>}
ComponentsAt(i) ==
    IF i = 1 THEN Components \cup NearHexCodes
    ELSE IF i <= 4 THEN Components ELSE LateComponents

\* the components joined with ','
RECURSIVE join_commas(_)
join_commas(cs) == IF Len(cs) = 1 THEN cs[1] ELSE cs[1] \o <<",">> \o join_commas(Tail(cs))

\* the sequences of k components
RECURSIVE ComponentLists(_)
ComponentLists(k) ==
    IF k = 1 THEN {<<c>> : c \in ComponentsAt(1)}
    ELSE {Append(cs, c) : cs \in ComponentLists(k - 1), c \in ComponentsAt(k)}

\* the gradient strings of up to n components
GradientStrings(n) ==
    UNION {{join_commas(cs) : cs \in ComponentLists(k)} : k \in 1..n}

ParseGradientCalls(n) ==
    {Called("parse_gradient", [colors |-> s]) : s \in GradientStrings(n)}

ParseGradientCall == Return("parse_gradient", parse_gradient(probe.arg.colors))


\* mutant: the extent goes to the smaller dimension
main_extents_Swapped(width, height, extent) ==
    LET aspect == FDiv(FromU32(width), FromU32(height))
    IN  IF LtU32(height, width) THEN <<FMul(extent, aspect), extent>>
        ELSE <<extent, FDiv(extent, aspect)>>

\* main: the extents of the JuliaData exported, from args.width, args.height
\* and args.extent
main_extents(width, height, extent) ==
    LET aspect == FDiv(FromU32(width), FromU32(height))
    IN  IF LtU32(width, height) THEN <<FMul(extent, aspect), extent>>
        ELSE <<extent, FDiv(extent, aspect)>>

\* the same in exact arithmetic
main_extents_Q(width, height, extent) ==
    LET aspect == <<width, height>>
    IN  IF width < height THEN <<QMul(extent, aspect), extent>>
        ELSE <<extent, QMul(extent, QInv(aspect))>>

\* image dimensions of the command line: the default 800, usual screen sizes,
\* small ones; and u32 values an f32 cannot hold
ArgDims == {1, 7, LocalSize, MaxDim, 600, 800, 1080, 1920}
WideDims == {2 ^ MantBits + 1, U32Max}
ArgExtents == {<<18, 5>>, <<1, 1>>, <<1, 5>>, <<7, 3>>}

MainExtentsCalls ==
    {Called("main_extents", [image_width |-> w, image_height |-> h, extent |-> e]) :
        w \in ArgDims, h \in ArgDims, e \in ArgExtents}
    \cup {Called("main_extents", [image_width |-> w, image_height |-> h, extent |-> e]) :
             w \in WideDims, h \in {1, 2 ^ MantBits} \cup WideDims, e \in ArgExtents}
    \cup {Called("main_extents", [image_width |-> w, image_height |-> h, extent |-> e]) :
             w \in {1, 2 ^ MantBits}, h \in WideDims, e \in ArgExtents}

MainExtentsCall ==
    LET a == probe.arg
    IN  Return("main_extents",
               [extents |-> main_extents(a.image_width, a.image_height, FromQ(a.extent)),
                extents_Q |-> IF a.image_width \in ArgDims /\ a.image_height \in ArgDims
                              THEN Some(main_extents_Q(a.image_width, a.image_height, a.extent))
                              ELSE None])


(***************************************************************************)
(* The run loop with the windowing system's event queue                    *)
(***************************************************************************)
\* events the windowing system delivers: pressed keys and CloseRequested
WindowEvents == {"Q", "Escape", "CloseRequested", "E", "Other"}
CloseEvents == {"Q", "Escape", "CloseRequested"}

Terminated == run.pc \in {"returned", "panicked"}

\* the windowing system queues an event for the window, whatever run is doing
Deliver(ev) ==
    /\ ~Terminated
    /\ run.delivered < MaxEvents
    /\ run' = [run EXCEPT !.pending = Append(@, ev), !.delivered = @ + 1]
    /\ UNCHANGED <<polled, probe, exportVars, frameVars>>

\* update: poll_events hands the oldest queued event to event_callback
PollPending ==
    /\ run.pc = "update"
    /\ frame_pc = "idle"
    /\ run.pending # <<>>
    /\ LET ev == Head(run.pending)
       IN  /\ state' = IF ev = "CloseRequested" THEN close(state)
                       ELSE event_callback(state, ev)
           /\ run' = [run EXCEPT !.pending = Tail(@),
                                 !.e_presses = IF ev = "E" THEN @ + 1 ELSE @]
    /\ UNCHANGED <<swap_idx, submitted, completed, frame_pc, frames, polled, probe,
                   exportVars>>

\* update: poll_events returns when the queue is empty, then the frame is built
LiveSubmit(idx) == run.pending = <<>> /\ SubmitFrame(idx)

\* update: finished.wait(None) returns; the frames are not counted
LiveFenceWait ==
    /\ frame_pc = "waiting"
    /\ Ops(submitted) \subseteq completed
    /\ frame_pc' = "idle"
    /\ UNCHANGED <<state, swap_idx, submitted, completed, frames, exportVars, otherVars>>

InitLive ==
    /\ InitRun
    /\ state.export_dimensions = [width |-> LocalSize, height |-> LocalSize]
    /\ ~run.overflow_checks

(***************************************************************************)
(* Specifications                                                          *)
(***************************************************************************)
InitOther ==
    /\ polled = 0
    /\ probe = NoProbe
    /\ run = NoRun

Init == InitExport /\ InitFrame /\ InitOther

\* any sequence of export calls on one cache
Next ==
    \E dims \in DimsSet, data \in DataSet :
        \/ Export(dims, data)
        \/ LibExport(dims, data)

Spec == Init /\ [][Next]_vars

\* export calls with calls of Debug::fmt between them
FmtData == {BaseData, Changed("n"), [BaseData EXCEPT !.color_midpoint = NaN]}
FmtNext ==
    \/ \E dims \in DimsSet, data \in FmtData :
           \/ Export(dims, data)
           \/ LibExport(dims, data)
    \/ Fmt
    \/ LibFmt

FmtSpec == Init /\ [][FmtNext]_vars

\* the interactive loop's frames
FrameNext ==
    \/ \E key \in Keys, idx \in 0..(ImageCount - 1) : Update(key, idx)
    \/ \E o \in submitted : GpuExecute(o)
    \/ FenceWait

FrameSpec == Init /\ [][FrameNext]_vars

\* one call of one function on one input
ProbeInputs ==
    OutputLenCalls \cup ReadBackCalls \cup IntoShaderDataCalls \cup ExportFaultedCalls
        \cup DrawAfterCalls \cup FindCalls \cup NewCalls \cup ZoomPairCalls

ProbeInit == InitExport /\ InitFrame /\ polled = 0 /\ run = NoRun /\ probe \in ProbeInputs

ProbeNext ==
    \/ OutputLenCall
    \/ ReadBackCall
    \/ IntoShaderDataCall
    \/ ExportFaultedCall
    \/ DrawAfterCall
    \/ FindCall
    \/ NewCall
    \/ ZoomPairCall
    \/ \E dev \in PhysicalDevices(FamilyLists) : Plug(dev)

ProbeSpec == ProbeInit /\ [][ProbeNext]_vars


\* key presses that select and move the gradient midpoints
KeyInit == InitExport /\ InitKeys /\ InitOther

KeyNext == \E key \in MidptKeys : KeyPress(key)

KeySpec == KeyInit /\ [][KeyNext]_vars


\* the events one update polls
EventInit == InitExport /\ InitEvents

EventNext ==
    \/ \E key \in EventKeys : PollKey(key)
    \/ \E position \in Positions, window_dims \in WindowDims :
           PollCursorMoved(position, window_dims)
    \/ \E pressed \in BOOLEAN : PollMouseInput(pressed)
    \/ \E y \in WheelDeltas : PollMouseWheel(y)
    \/ PollCloseRequested

EventSpec == EventInit /\ [][EventNext]_vars

\* JuliaInterface::run
RunInit == InitExport /\ InitRun

RunNext ==
    \/ LoopTest
    \/ \E key \in RunKeys : PollKey(key)
    \/ PollCloseRequested
    \/ \E idx \in 0..(ImageCount - 1) : Submit(idx)
    \/ NewFrameErr
    \/ \E o \in submitted : GpuExecute(o)
    \/ FenceWait
    \/ SkipExport
    \/ ExportBegin
    \/ ExportReturn

RunSpec == RunInit /\ [][RunNext]_vars


\* the parsing of the command line, one call on one input
ArgsInit ==
    /\ InitExport /\ InitFrame /\ polled = 0 /\ run = NoRun
    /\ probe \in ParseGradientCalls(MaxComponents) \cup MainExtentsCalls

ArgsNext ==
    \/ ParseGradientCall
    \/ MainExtentsCall

ArgsSpec == ArgsInit /\ [][ArgsNext]_vars


\* the run loop and the windowing system; the program takes its steps (every
\* frame and every export terminates), the windowing system delivers events
\* when it likes
LiveInit == InitExport /\ InitLive

LiveProgram ==
    \/ LoopTest
    \/ PollPending
    \/ \E idx \in 0..(ImageCount - 1) : LiveSubmit(idx)
    \/ \E o \in submitted : GpuExecute(o)
    \/ LiveFenceWait
    \/ SkipExport
    \/ ExportBegin
    \/ ExportReturn

LiveNext ==
    \/ LiveProgram
    \/ NewFrameErr
    \/ \E ev \in WindowEvents : Deliver(ev)

LiveSpec == LiveInit /\ [][LiveNext]_vars /\ WF_vars(LiveProgram)


(***************************************************************************)
(* Properties                                                              *)
(***************************************************************************)
L == Unwrap(last)       \* the most recent export call
E == Unwrap(earlier)    \* the remembered earlier call

\* both calls were made, on the same cache
TwoCalls == last # None /\ earlier # None /\ E.obj = L.obj

Wrote(o) == o.file # None

\* the image, input buffer and output buffer a cache entry is bound to
ImageOf(c) == IF "image" \in DOMAIN c THEN c.image
              ELSE c.command_buffer.dispatch.desc_set.image
InputOf(c) == IF "input_buffer" \in DOMAIN c THEN c.input_buffer
              ELSE c.command_buffer.dispatch.desc_set.buffer

\* every resource of entry c was created for c's own key and holds what
\* regeneration for that key puts there
BuiltForOwnKey(c) ==
    LET key == Key(c.dims, c.data)
    IN  /\ InputOf(c).built_for = key
        /\ ImageOf(c).built_for = key
        /\ c.output_buffer.built_for = key
        /\ InputOf(c).contents = into_shader_data(c.data)
        /\ ImageOf(c).width = c.dims.width
        /\ ImageOf(c).height = c.dims.height
        /\ c.output_buffer.len = OutputLen(c.dims)

Regenerated(o) ==
    /\ ~o.hit
    /\ {"input_buffer", "image", "output_buffer"}
           \subseteq {o.allocs[i] : i \in DOMAIN o.allocs}

\* position of step e in trace tr, 0 when absent
Pos(tr, e) == IF \E i \in DOMAIN tr : tr[i] = e
              THEN CHOOSE i \in DOMAIN tr : tr[i] = e
              ELSE 0

CeilDiv(a, b) == (a + b - 1) \div b

\* C1: the entry an export(dims, data) call executes and reads back has key
\* exactly (dims, data), and the file it writes is computed from the parameter
\* record of data on an image of size dims: no stale pixels.
C1_NoStalePixels ==
    (last # None /\ Wrote(L)) =>
        LET c == Unwrap(L.used)
            f == Unwrap(L.file)
        IN  /\ c.dims = L.dims
            /\ c.data = L.data
            /\ c.output_buffer.built_for = Key(L.dims, L.data)
            /\ f.pixels # Blank
            /\ f.pixels.params = into_shader_data(L.data)
            /\ f.pixels.width = L.dims.width
            /\ f.pixels.height = L.dims.height

\* a cache hit on export.rs after a call with another key has been made
C1_Witness ==
    /\ TwoCalls /\ L.obj = "export" /\ L.hit /\ Wrote(L)
    /\ ~adjacent
    /\ Key(E.dims, E.data) # Key(L.dims, L.data)

\* C2 (as claimed): the second of two consecutive export calls with identical
\* (dimensions, parameters) allocates no GPU resource at all.
C2_SecondCallAllocatesNothing ==
    (TwoCalls /\ adjacent /\ E.dims = L.dims /\ E.data = L.data) => L.allocs = <<>>

\* C3 (as claimed): after every export(dims, data) call the cache of the object
\* called is Populated with key (dims, data).
C3_PopulatedAfterExport ==
    last # None =>
        LET cell == IF L.obj = "export" THEN cached_data ELSE lib_cached_data
        IN  /\ cell # None
            /\ Unwrap(cell).dims = L.dims
            /\ Unwrap(cell).data = L.data

\* exactly one field of the ParameterSet differs and the dimensions are equal,
\* or the ParameterSet is equal and exactly one of width and height differs
SingleChange(a, b) ==
    \/ /\ a.dims = b.dims
       /\ Cardinality({f \in Fields : a.data[f] # b.data[f]}) = 1
    \/ /\ a.data = b.data
       /\ (a.dims.width # b.dims.width) # (a.dims.height # b.dims.height)

\* C4: when two consecutive export calls differ in a single field of the
\* ParameterSet, or only in the width or only in the height, the second call
\* regenerates the cache entry.
C4_SingleChangeForcesRegeneration ==
    (TwoCalls /\ adjacent /\ SingleChange(E, L)) => Regenerated(L)

\* consecutive calls on export.rs that differ in the height alone
C4_Witness ==
    /\ TwoCalls /\ adjacent /\ L.obj = "export"
    /\ E.data = L.data
    /\ E.dims.width = L.dims.width
    /\ E.dims.height # L.dims.height
    /\ Wrote(L)

C6_RegenerationTotal ==
    /\ cached_data # None => BuiltForOwnKey(Unwrap(cached_data))
    /\ lib_cached_data # None => BuiltForOwnKey(Unwrap(lib_cached_data))
    /\ (last # None /\ L.used # None) => BuiltForOwnKey(Unwrap(L.used))
    /\ (last # None /\ ~L.hit) => Regenerated(L)

\* an entry of export.rs replaced by one for another key
C6_Witness ==
    /\ TwoCalls /\ adjacent /\ L.obj = "export"
    /\ ~L.hit
    /\ E.dims = L.dims /\ E.data # L.data
    /\ cached_data # None

\* C7: within one export call: upload fence waited before the dispatch is
\* submitted, the dispatch submitted before its fence is waited, the fence
\* waited before the output buffer is read, the buffer read before the file
\* is encoded; a call that creates an input buffer uploads it in that call.
C7_ExportStepOrder ==
    (last # None /\ Wrote(L)) =>
        LET tr == L.trace
        IN  /\ 0 < Pos(tr, "dispatch_submit")
            /\ Pos(tr, "dispatch_submit") < Pos(tr, "dispatch_wait")
            /\ Pos(tr, "dispatch_wait") < Pos(tr, "output_read")
            /\ Pos(tr, "output_read") < Pos(tr, "file_encode")
            /\ ~L.hit => /\ 0 < Pos(tr, "upload_submit")
                         /\ Pos(tr, "upload_submit") < Pos(tr, "upload_wait")
                         /\ Pos(tr, "upload_wait") < Pos(tr, "dispatch_submit")
            /\ Pos(tr, "upload_wait") > 0 => Pos(tr, "upload_wait") < Pos(tr, "dispatch_submit")
            /\ Unwrap(L.file).pixels # Blank

\* a call that uploads, dispatches, reads and writes
C7_Witness ==
    /\ last # None /\ ~L.hit /\ Wrote(L)
    /\ Len(L.trace) >= 9

\* C8: in every frame the draw has executed only if the compute dispatch and
\* the swapchain-image acquisition of that frame have, and the present only
\* if the draw has.
C8_FrameOrder ==
    /\ frame_pc = "waiting" => Ops(submitted) = {"dispatch", "acquire", "draw", "present"}
    /\ "draw" \in completed => {"dispatch", "acquire"} \subseteq completed
    /\ "present" \in completed => "draw" \in completed

\* a frame whose present has executed
C8_Witness ==
    /\ frame_pc = "waiting"
    /\ "present" \in completed
    /\ frames > 0

\* C9 (as claimed): the dispatch of an export of a width x height image has
\* ceil(width/8) x ceil(height/8) x 1 workgroups.
C9_DispatchCoversImage ==
    (last # None /\ L.groups # None) =>
        Unwrap(L.groups) = <<CeilDiv(L.dims.width, LocalSize),
                             CeilDiv(L.dims.height, LocalSize), 1>>

\* C10: every export call writes an image, and the image has exactly the
\* width and height passed to that call.
C10_FileHasRequestedSize ==
    last # None =>
        /\ Wrote(L)
        /\ Unwrap(L.file).width = L.dims.width
        /\ Unwrap(L.file).height = L.dims.height

\* dimensions not divisible by 8, exported right after other dimensions with
\* the same ParameterSet
C10_Witness ==
    /\ TwoCalls /\ adjacent /\ Wrote(L)
    /\ L.dims.width % LocalSize # 0
    /\ L.dims.height % LocalSize # 0
    /\ E.data = L.data
    /\ E.dims # L.dims

(***************************************************************************)
(* Single calls                                                            *)
(***************************************************************************)
Returned(fn) == probe.fn = fn /\ probe.out # None
Out == Unwrap(probe.out)

\* C11 (as claimed): for every u32 width and height the length computed for
\* the output buffer is the mathematical product width * height * 4, and the
\* computation does not abort.
C11_OutputLenIsProduct ==
    Returned("output_len") =>
        IF Out.panic THEN FALSE
        ELSE Pad(Out.len, 3 * U32Digits)
                 = MulLimbs(MulLimbs(probe.arg.width, probe.arg.height),
                            ToLimbs(BytesPerPixel, U32Digits))

\* where the computation does neither wrap nor abort, it is the product
C11_SmallProductExact ==
    (Returned("output_len") /\ probe.arg.width = ToLimbs(MaxDim, U32Digits)
                            /\ probe.arg.height = ToLimbs(LocalSize, U32Digits)) =>
        /\ ~Out.panic
        /\ FromLimbs(Out.len) = MaxDim * LocalSize * BytesPerPixel

\* the integer square root
Isqrt(x) == CHOOSE r \in 0..x : r * r <= x /\ x < (r + 1) * (r + 1)

\* the claimed conversions of an 8-bit channel: linear-light to display-encoded
\* (gamma 2) and back
linear_to_display(v) == Isqrt(v * (Base - 1))
display_to_linear(v) == (v * v) \div (Base - 1)

\* the display-encoded pixel: colour channels converted, alpha kept
encode_pixel(px) ==
    [i \in 1..BytesPerPixel |-> IF i < BytesPerPixel THEN linear_to_display(px[i]) ELSE px[i]]

\* C12 (as claimed): the pixels export writes to the file are the
\* display-encoded conversion of the pixels of the output buffer.
C12_FileIsDisplayEncoded ==
    Returned("read_back") =>
        IF Out = None THEN FALSE
        ELSE Unwrap(Out).pixels = encode_pixel(probe.arg.output_buffer.bytes)

\* the linear-light colour: colour channels converted, alpha kept
decode_pixel(px) ==
    [i \in 1..BytesPerPixel |-> IF i < BytesPerPixel THEN display_to_linear(px[i]) ELSE px[i]]

\* C13 (as claimed): the uploaded record holds the three gradient colours
\* converted from display-encoded to linear-light, and every other field of
\* the ParameterSet unchanged.
C13_ColorsUploadedLinear ==
    Returned("into_shader_data") =>
        /\ Out.color = [i \in 1..3 |-> decode_pixel(probe.arg.color[i])]
        /\ Out.midpt = probe.arg.color_midpoint
        /\ Out.n = probe.arg.n
        /\ Out.c = probe.arg.c
        /\ Out.iters = probe.arg.iters
        /\ Out.center = probe.arg.center
        /\ Out.extents = probe.arg.extents

\* the part of C13 about the other fields alone
C13_OtherFieldsCopied ==
    Returned("into_shader_data") =>
        /\ Out.midpt = probe.arg.color_midpoint
        /\ Out.n = probe.arg.n
        /\ Out.c = probe.arg.c
        /\ Out.iters = probe.arg.iters
        /\ Out.center = probe.arg.center
        /\ Out.extents = probe.arg.extents

\* the step that failed in the probed export call
FailedStep == Unwrap(probe.arg.fault).step

\* C14 (as claimed): when the file write of export fails, the caller gets an
\* I/O error value and the path holds its previous content or nothing new.
C14_WriteFailureReturnedNoPartialFile ==
    (Returned("export") /\ probe.arg.fault # None) =>
        (FailedStep = "save" =>
            /\ ~Out.panic
            /\ Out.returned = Some([err |-> "save"])
            /\ Out.file = probe.arg.previous)

\* C15 (as claimed): every failure inside an export call reaches the caller
\* as an error value that names the failed step, and no step runs twice.
C15_FailuresReturnedDistinct ==
    (Returned("export") /\ probe.arg.fault # None) =>
        /\ ~Out.panic
        /\ Out.returned = Some([err |-> FailedStep])
        /\ \A i, j \in 1..Len(Out.trace) : Out.trace[i] = Out.trace[j] => i = j

\* the part of C15 about retries alone: the steps run in the order of the code,
\* each at most once, and the failed step is the last
C15_NoRetry ==
    Returned("export") =>
        /\ Out.trace = SubSeq(ExportSteps, 1, Len(Out.trace))
        /\ probe.arg.fault # None => Out.trace[Len(Out.trace)] = FailedStep

\* C16 (as claimed): for every failing step draw_after returns Err, no step
\* aborts, and two different failing steps give two different variants.
C16_DrawAfterReturnsDistinctErr ==
    (Returned("draw_after") /\ probe.arg.failed # None) =>
        /\ ~Out.panic
        /\ IF Out.returned = None THEN FALSE
           ELSE "err" \in DOMAIN Unwrap(Out.returned)
        /\ \A s \in DrawAfterStepNames \ {Unwrap(probe.arg.failed)} :
               draw_after(Some(s)).returned # Out.returned

\* the part of C16 that holds: a failing step other than the two descriptor
\* bindings returns Err with a variant no other such step returns
C16_PropagatedStepsDistinct ==
    (Returned("draw_after") /\ probe.arg.failed # None /\ ~Out.panic) =>
        /\ "err" \in DOMAIN Unwrap(Out.returned)
        /\ \A s \in DrawAfterStepNames \ {Unwrap(probe.arg.failed)} :
               draw_after(Some(s)).returned # Out.returned

\* a device the selection may return: it has the storage-buffer extension and
\* a queue family that supports compute
Qualifies(dev) == dev.ext /\ \E j \in 1..Len(dev.families) : dev.families[j].compute

\* the position of a device type in discrete > integrated > virtual > CPU > other
Rank(ty) == CHOOSE k \in 1..Len(DeviceTypes) : DeviceTypes[k] = ty

\* C17: when a qualifying device is present, device selection returns a
\* qualifying device of the highest-ranked class that has one, with the most
\* compute queues among the qualifying devices of that class, and a queue
\* family of it that supports compute.
C17_BestDeviceSelected ==
    Returned("find_best_physical_device") =>
        LET devs == probe.arg.devices
        IN  (\E i \in 1..Len(devs) : Qualifies(devs[i])) =>
                IF Out = None THEN FALSE
                ELSE LET sel == devs[Unwrap(Out).device]
                     IN  /\ Qualifies(sel)
                         /\ \A i \in 1..Len(devs) :
                                Qualifies(devs[i]) => Rank(sel.ty) <= Rank(devs[i].ty)
                         /\ \A i \in 1..Len(devs) :
                                (Qualifies(devs[i]) /\ devs[i].ty = sel.ty) =>
                                    num_compute_queues(devs[i]) <= num_compute_queues(sel)
                         /\ sel.families[Unwrap(Out).family].compute

\* a device of a higher class that does not qualify is passed over for a
\* qualifying device of a lower class, whose second queue family is returned
C17_Witness ==
    /\ Returned("find_best_physical_device")
    /\ Out # None
    /\ Len(probe.arg.devices) = 2
    /\ LET devs == probe.arg.devices
       IN  /\ Rank(devs[1].ty) < Rank(devs[2].ty)
           /\ ~Qualifies(devs[1])
           /\ num_compute_queues(devs[1]) > num_compute_queues(devs[2])
           /\ Unwrap(Out) = [device |-> 2, family |-> 2]

\* C18: once the instance exists, JuliaContext::new returns DeviceDiscovery
\* exactly when no enumerated device qualifies, and then no logical device
\* was created.
C18_DeviceDiscoveryIffNoneQualifies ==
    (Returned("JuliaContext::new") /\ probe.arg.failure # Some("InstanceCreation")) =>
        LET devs == probe.arg.devices
            none == \A i \in 1..Len(devs) : ~Qualifies(devs[i])
        IN  /\ (Out.returned = [err |-> "DeviceDiscovery"]) <=> none
            /\ none => Out.device = None

\* devices are present, each lacking the extension or a compute family
C18_Witness ==
    /\ Returned("JuliaContext::new")
    /\ Out.returned = [err |-> "DeviceDiscovery"]
    /\ Len(probe.arg.devices) = 2
    /\ probe.arg.devices[1].ext
    /\ probe.arg.devices[2].families[1].compute

(***************************************************************************)
(* Gradient midpoints                                                      *)
(***************************************************************************)
Midpt == state.data.color_midpoint

\* C19: after any sequence of the midpoint keys the three midpoints are
\* non-decreasing in index order.
C19_MidpointsOrdered == Midpt[1] <= Midpt[2] /\ Midpt[2] <= Midpt[3]

\* one press of U with the second midpoint active, the second and third both
\* at 1.0, has taken the third along
C19_Witness ==
    /\ polled = 1
    /\ state.active_midpt = 1
    /\ Midpt[2] = One + MidStep
    /\ Midpt[3] = One + MidStep

\* C20 (as claimed): after any sequence of the midpoint keys every midpoint is
\* within [0, 1].
C20_MidpointsInUnitInterval == \A i \in 1..3 : 0 <= Midpt[i] /\ Midpt[i] <= One

\* C29 (as claimed): the equality the cache uses is reflexive for every
\* representable ParameterSet, non-finite values included, so an export
\* repeated with the value of the call before it is a cache hit.
C29_EqualityReflexive ==
    (TwoCalls /\ adjacent /\ E.dims = L.dims /\ E.data = L.data) =>
        /\ JuliaDataEq(L.data, L.data)
        /\ L.obj = "export" => L.hit

\* a u32 is at least k (0 < k < 2^31)
AtLeastU32(a, k) == ~LtU32(a, k)

\* C25 (as claimed): after any sequence of interactive events the exponent n
\* of the ParameterSet is >= 2.
C25_ExponentAtLeastTwo == AtLeastU32(state.data.n, 2)

\* C26 (as claimed): after any sequence of interactive events the iteration
\* cap is >= 1, a press of [ leaves it >= 10, and the decrement of [ never
\* underflows.
C26_IterationCapPositive ==
    /\ AtLeastU32(state.data.iters, 1)
    /\ AtLeastU32(event_callback(state, "LBracket").data.iters, 10)
    /\ ~event_overflows(state, "LBracket")

\* C27 (as claimed): after any sequence of zoom events (wheel, + = - and Z)
\* both components of extents are > 0.
C27_ExtentsPositive ==
    /\ FLt(FZero, state.data.extents[1])
    /\ FLt(FZero, state.data.extents[2])

\* C28 (as claimed): after any sequence of I, K, O and L presses the export
\* width and height are both > 0.
C28_ExportDimensionsPositive ==
    /\ AtLeastU32(state.export_dimensions.width, 1)
    /\ AtLeastU32(state.export_dimensions.height, 1)

\* C30: a CursorMoved event (the only event that changes the recorded cursor
\* position) while the left button is not held changes nothing but the recorded
\* position; while dragging it also adds (-dx/W * extents.x, dy/H * extents.y)
\* to the center, (dx, dy) being the displacement from the recorded position
\* and (W, H) the window's size.
C30_CursorMoved ==
    [][state'.mouse_state.pos # state.mouse_state.pos =>
          LET dx == state'.mouse_state.pos[1] - state.mouse_state.pos[1]
              dy == state'.mouse_state.pos[2] - state.mouse_state.pos[2]
              recorded == [state EXCEPT !.mouse_state.pos = state'.mouse_state.pos]
          IN  IF ~state.mouse_state.dragging
              THEN state' = recorded
              ELSE \E wd \in WindowDims :
                      LET ox == FMul(FDiv(FromInt(0 - dx), FromInt(wd[1])),
                                     state.data.extents[1])
                          oy == FMul(FDiv(FromInt(dy), FromInt(wd[2])),
                                     state.data.extents[2])
                      IN  state' = [recorded EXCEPT
                                       !.data.center = <<FAdd(@[1], ox), FAdd(@[2], oy)>>]
      ]_vars

\* the first event is a drag of the cursor from (0, 0) to (10, 4) over the
\* default view: the center has moved left and up by 10/800 and 4/600 of 3.6
C30_Witness ==
    /\ polled = 1
    /\ state.mouse_state.dragging
    /\ state.mouse_state.pos = <<10, 4>>
    /\ state.data.extents = <<Lit3_6, Lit3_6>>
    /\ FLt(state.data.center[1], FZero)
    /\ FLt(FZero, state.data.center[2])

\* C21: an iteration of run's loop whose update returned with the export
\* request set (by one or several E presses) makes exactly one export call, with
\* the export dimensions, an iteration without the request makes none, and the
\* request is clear whenever the loop condition is reached.
C21_OneExportPerRequest ==
    /\ run.exports <= 1
    /\ run.pc \in {"update", "updated", "exporting"} => run.exports = 0
    /\ run.pc = "test" =>
           /\ ~state.export_requested
           /\ run.exports = IF run.requested THEN 1 ELSE 0
           /\ run.exports = 1 => L.obj = "export" /\ L.dims = state.export_dimensions

\* an iteration that polled two E presses and made its one export call
C21_Witness ==
    /\ run.pc = "test"
    /\ run.e_presses = 2
    /\ run.exports = 1
    /\ frames >= 1

\* an interactive export has just returned: L is its call
Exported == run.pc = "test" /\ run.exports = 1

\* C22 (as claimed): the ParameterSet passed to the export cache by an
\* interactive export equals state.data in every field, for every export width
\* and height.
C22_ExportDataIsStateData == Exported => L.data = state.data

\* C22 (amended): the ParameterSet passed equals state.data in every field but
\* extents; extents are equal too when width = height, and otherwise the extent
\* of the longer axis is multiplied by longer / shorter (in f32) and the other
\* extent is equal.
C22_ExportDataAspectScaled ==
    Exported =>
        LET w == state.export_dimensions.width
            h == state.export_dimensions.height
            ext == state.data.extents
            scaled == IF w = h THEN ext
                      ELSE IF LtU32(w, h)
                           THEN <<ext[1], FMul(ext[2], FDiv(FromU32(h), FromU32(w)))>>
                           ELSE <<FMul(ext[1], FDiv(FromU32(w), FromU32(h))), ext[2]>>
        IN  L.data = [state.data EXCEPT !.extents = scaled]

\* an export of an image higher than wide: the vertical extent passed is larger
\* than the one on screen
C22_Witness ==
    /\ Exported
    /\ state.export_dimensions.width < state.export_dimensions.height
    /\ L.data.extents[1] = state.data.extents[1]
    /\ FLt(state.data.extents[2], L.data.extents[2])

\* C23: a Q, an Escape or a window-close event sets close_requested; once set
\* it is never reset, and update is not called again once the loop condition
\* has been reached with it set: run returns.
C23_CloseIsFinal ==
    /\ [](/\ event_callback(state, "Q").close_requested
          /\ event_callback(state, "Escape").close_requested
          /\ close(state).close_requested)
    /\ [][/\ state.close_requested => state'.close_requested
          /\ (run.pc # "update" /\ run'.pc = "update") => ~state.close_requested
          /\ (run.pc = "test" /\ state.close_requested) => run'.pc = "returned"
         ]_vars

\* run has returned Ok after a frame in which a close request was polled
C23_Witness ==
    /\ run.pc = "returned"
    /\ run.result = Some("Ok")
    /\ state.close_requested
    /\ frames >= 1
    /\ polled >= 1

\* C24: while an interactive export call is in progress the GPU has completed
\* every operation of every frame submitted before (its fence was waited on),
\* and no frame is submitted before the call has returned.
C24_ExportNeverOverlapsFrame ==
    /\ [](run.pc = "exporting" => frame_pc = "idle" /\ Ops(submitted) \subseteq completed)
    /\ [][run.pc = "exporting" =>
              /\ submitted' = submitted
              /\ completed' = completed
              /\ frame_pc' = "idle"]_vars

\* an export in progress after a frame was rendered
C24_Witness ==
    /\ run.pc = "exporting"
    /\ frames >= 1
    /\ submitted # {}
    /\ Ops(submitted) = completed

\* C36 (as claimed): the increments of PageUp (n + 1), ] (iters + 10), I and O
\* (export width, height + 40) never leave u32: in every reachable state each of
\* these keys leaves its value strictly greater than before.
C36_IncrementsNeverWrap ==
    /\ LtU32(state.data.n, event_callback(state, "PageUp").data.n)
    /\ LtU32(state.data.iters, event_callback(state, "RBracket").data.iters)
    /\ LtU32(state.export_dimensions.width,
             event_callback(state, "I").export_dimensions.width)
    /\ LtU32(state.export_dimensions.height,
             event_callback(state, "O").export_dimensions.height)
    /\ \A key \in {"PageUp", "RBracket", "I", "O"} : ~event_overflows(state, key)

\* C38: every step keeps an export dimension that is a multiple of 8 a multiple
\* of 8, and changes a dimension by 40 (in u32 arithmetic) or not at all.
C38_DimensionsStayMultiplesOfEight ==
    [][/\ state.export_dimensions.width % 8 = 0 => state'.export_dimensions.width % 8 = 0
       /\ state.export_dimensions.height % 8 = 0 => state'.export_dimensions.height % 8 = 0
       /\ state'.export_dimensions.width \in
              {state.export_dimensions.width,
               AddU32(state.export_dimensions.width, 40).value,
               SubU32(state.export_dimensions.width, 40).value}
       /\ state'.export_dimensions.height \in
              {state.export_dimensions.height,
               AddU32(state.export_dimensions.height, 40).value,
               SubU32(state.export_dimensions.height, 40).value}
      ]_vars

\* from the export dimensions 80 x 40, keys I and O have been pressed
C38_Witness ==
    /\ polled = 2
    /\ state.export_dimensions = [width |-> 120, height |-> 80]

\* C39: active_color and active_midpt are < 3 after any sequence of events, and
\* set_active_color(idx) and set_active_midpt(idx) with idx >= 3 return Err and
\* leave the whole state as it is.
C39_ActiveIndicesInRange ==
    /\ state.active_color \in 0..2
    /\ state.active_midpt \in 0..2
    /\ \A idx \in {3, 4, 2 ^ 8} :
           /\ set_active_color(state, idx) = [st |-> state, result |-> "Err"]
           /\ set_active_midpt(state, idx) = [st |-> state, result |-> "Err"]

\* keys Key3 and Key4 have made the last colour and the first midpoint active
C39_Witness ==
    /\ polled = 2
    /\ state.active_color = 2
    /\ state.active_midpt = 0

\* a positive f32 with a full 24-bit magnitude
IsNormal(a) == a.s = 1 /\ a.m >= 2 ^ (MantBits - 1) /\ a.e < InfExp

\* r is within k units in the last place of x, for normal x and positive r
WithinUlps(x, r, k) ==
    /\ r.s = 1 /\ r.e \in {x.e - 1, x.e, x.e + 1}
    /\ LET low == IF r.e < x.e THEN r.e ELSE x.e
           xs == x.m * 2 ^ (x.e - low)
           rs == r.m * 2 ^ (r.e - low)
       IN  (IF xs < rs THEN rs - xs ELSE xs - rs) <= k * 2 ^ (x.e - low)

\* C37: zoom-in and zoom-out are inverse operations on extents. A wheel
\* event of scroll amount y followed by one of scroll amount -y, and a press
\* of + followed by a press of -, restore the extents that held before the
\* pair: exactly in exact (rational) arithmetic, and in the f32 arithmetic of
\* the code to within 5 units in the last place of each extent.
C37_ZoomPairRestoresExtents ==
    Returned("zoom_pair") =>
        \A i \in 1..2 :
            /\ QEq(Out.after_Q[i], probe.arg.view[i])
            /\ IsNormal(Out.before[i]) /\ IsNormal(Out.between[i])
            /\ WithinUlps(Out.before[i], Out.after[i], 5)

\* a pair whose first event changed the extents and whose f32 result is not
\* the f32 it started from
C37_Witness ==
    /\ Returned("zoom_pair")
    /\ probe.arg.pair = "wheel"
    /\ \A i \in 1..2 : ~QEq(Out.between_Q[i], probe.arg.view[i])
    /\ Out.after # Out.before
    /\ Out.between # Out.before

\* C35: in a sequence of export and Debug::fmt calls no take().unwrap() runs
\* on an empty cell. Every export call made found an entry in command_buffer
\* and export_core (a call that found none records no entry as used), and from
\* the cell as it is now, also after a Debug::fmt, the next export call finds
\* one at each of its take().unwrap().
C35_NoUnwrapOfEmptyCache ==
    /\ last # None => L.used # None
    /\ \A dims \in DimsSet, data \in FmtData :
           \A cell \in {cached_data, fmt(cached_data).cell} :
               LET looked == export_lookup(cell, dims, data)
                   cb == command_buffer(looked.cell)
               IN  /\ looked.cell # None
                   /\ ~cb.panic
                   /\ Written(cb.cell, cb.cmd_buf) # None
    /\ \A dims \in DimsSet, data \in FmtData :
           \A cell \in {lib_cached_data, fmt(lib_cached_data).cell} :
               lib_export_lookup(cell, dims, data).cell # None

\* an export of lib.rs after a Debug::fmt of the cell the export before it
\* left empty
C35_Witness ==
    /\ TwoCalls /\ adjacent
    /\ L.obj = "lib" /\ L.formatted
    /\ ~L.hit /\ L.used # None
    /\ lib_cached_data = None

\* C40: Debug::fmt leaves the cache unchanged. The cell holds after fmt what
\* it held before, an export call after fmt does what it would have done
\* without it, and of two identical export calls of export.rs with a fmt call
\* between them the second is a cache hit.
C40_FmtLeavesCacheUnchanged ==
    /\ fmt(cached_data).cell = cached_data
    /\ fmt(lib_cached_data).cell = lib_cached_data
    /\ \A dims \in DimsSet, data \in FmtData :
           /\ export(fmt(cached_data).cell, dims, data) = export(cached_data, dims, data)
           /\ lib_export(fmt(lib_cached_data).cell, dims, data)
                  = lib_export(lib_cached_data, dims, data)
    /\ (/\ TwoCalls /\ adjacent /\ L.formatted /\ L.obj = "export"
        /\ ImgDimensionsEq(E.dims, L.dims) /\ JuliaDataEq(E.data, L.data)) => L.hit

\* two identical export calls with a fmt call between them, the second a hit
C40_Witness ==
    /\ TwoCalls /\ adjacent /\ L.formatted /\ L.obj = "export"
    /\ E.dims = L.dims /\ E.data = L.data
    /\ L.hit /\ Wrote(L)
    /\ cached_data # None


\* a component is a color when it is a CSS name or '#' and six hex digits
IsHexCode(c) == Len(c) = 7 /\ c[1] = "#" /\ \A i \in 2..7 : to_digit_16(c[i]) # None
HexPair(c, i) == 16 * Unwrap(to_digit_16(c[i])) + Unwrap(to_digit_16(c[i + 1]))
IsColorSpec(c) == named_from_str(c) # None \/ IsHexCode(c)
ColorOf(c) ==
    to_vec4(IF named_from_str(c) # None THEN Unwrap(named_from_str(c))
            ELSE <<HexPair(c, 2), HexPair(c, 4), HexPair(c, 6)>>)
IsMidpointSpec(c) == ~IsColorSpec(c) /\ f32_from_str(c) # None

\* the shape of a gradient string with components cs
GradientShape(cs) ==
    LET colors(k) == Len(cs) >= k /\ \A i \in 1..k : IsColorSpec(cs[i])
    IN  CASE Len(cs) = 2 /\ colors(2) -> "color,color"
          [] Len(cs) = 3 /\ colors(2) /\ IsMidpointSpec(cs[3]) -> "color,color,midpoint"
          [] Len(cs) = 3 /\ colors(3) -> "color,color,color"
          [] Len(cs) = 4 /\ colors(3) /\ IsMidpointSpec(cs[4]) -> "color,color,color,midpoint"
          [] OTHER -> "none"

\* C31: parse_gradient accepts exactly the four shapes, each color a CSS name
\* or a #rrggbb hex code, and returns an error for every other string; the
\* result has the colors given, white as third color and midpoint 1.0 for two
\* colors without midpoint, the second color as third for two colors with
\* midpoint, and midpoint 0.25 for three colors without midpoint.
C31_GradientShapes ==
    Returned("parse_gradient") =>
        LET cs == components_of(probe.arg.colors)
            shape == GradientShape(cs)
        IN  /\ (Out # None) <=> (shape # "none")
            /\ shape = "color,color" =>
                   Unwrap(Out) = [colors |-> <<ColorOf(cs[1]), ColorOf(cs[2]), White>>,
                                  midpt |-> Lit1]
            /\ shape = "color,color,midpoint" =>
                   Unwrap(Out) = [colors |-> <<ColorOf(cs[1]), ColorOf(cs[2]), ColorOf(cs[2])>>,
                                  midpt |-> Unwrap(f32_from_str(cs[3]))]
            /\ shape = "color,color,color" =>
                   Unwrap(Out) = [colors |-> <<ColorOf(cs[1]), ColorOf(cs[2]), ColorOf(cs[3])>>,
                                  midpt |-> Lit0_25]
            /\ shape = "color,color,color,midpoint" =>
                   Unwrap(Out) = [colors |-> <<ColorOf(cs[1]), ColorOf(cs[2]), ColorOf(cs[3])>>,
                                  midpt |-> Unwrap(f32_from_str(cs[4]))]

\* "red,#00Ff80, blue ,0.5" parsed
C31_Witness ==
    /\ Returned("parse_gradient")
    /\ Out # None
    /\ components_of(probe.arg.colors)
           = <<<<"r", "e", "d">>, <<"#", "0", "0", "F", "f", "8", "0">>,
               <<"b", "l", "u", "e">>, <<"0", ".", "5">>>>
    /\ Unwrap(Out).midpt = Half
    /\ Unwrap(Out).colors[2][2] = Lit1

\* C32 (as claimed): the midpoint parse_gradient returns lies in [0, 1]; a
\* midpoint component outside gives an error.
C32_MidpointInUnitInterval ==
    (Returned("parse_gradient") /\ Out # None) =>
        /\ ~FLt(Unwrap(Out).midpt, FZero)
        /\ ~FLt(Lit1, Unwrap(Out).midpt)


\* C33: the extent argument is the extent of the largest image dimension.
\* For width, height > 0 the larger dimension gets exactly extent; the smaller
\* one gets extent * smaller / larger, so that extents.x / extents.y = width /
\* height: exactly in exact (rational) arithmetic, and in the f32 arithmetic
\* of the code to within 4 units in the last place of the f32 nearest to it.
C33_ExtentOfLargestDimension ==
    Returned("main_extents") =>
        LET w == probe.arg.image_width
            h == probe.arg.image_height
            extent == FromQ(probe.arg.extent)
            large == IF LtU32(w, h) THEN 2 ELSE 1
            small == 3 - large
        IN  /\ Out.extents[large] = extent
            /\ w = h => Out.extents[small] = extent
            /\ ~FLt(extent, Out.extents[small]) /\ FLt(FZero, Out.extents[small])
            /\ Out.extents_Q # None =>
                   LET q == Unwrap(Out.extents_Q)
                       exact == QMul(probe.arg.extent,
                                     IF w < h THEN <<w, h>> ELSE <<h, w>>)
                   IN  /\ QEq(q[large], probe.arg.extent)
                       /\ QEq(q[small], exact)
                       /\ QEq(QMul(q[1], QInv(q[2])), <<w, h>>)
                       /\ IsNormal(FromQ(exact))
                       /\ WithinUlps(FromQ(exact), Out.extents[small], 4)

\* a portrait image: the height gets the extent, the width less
C33_Witness ==
    /\ Returned("main_extents")
    /\ probe.arg.image_width = 1080 /\ probe.arg.image_height = 1920
    /\ Out.extents[2] = FromQ(probe.arg.extent)
    /\ FLt(Out.extents[1], Out.extents[2])


\* a Q, Escape or CloseRequested event is queued for the window
ClosePending == \E i \in DOMAIN run.pending : run.pending[i] \in CloseEvents

\* C34 (as claimed): every Q, Escape or CloseRequested event delivered while
\* the loop runs, also one delivered during an export, eventually terminates
\* the loop.
C34_CloseEventTerminatesLoop == ClosePending ~> Terminated

====
